---- MODULE Spec2Model ----
(***************************************************************************)
(* Model of the range-header test server (server/main.go) of               *)
(* dolthub/headers_tester: the request handler serveContents, the range    *)
(* parser offsetAndLenFromRange, the responder writeContentRange and the   *)
(* in-memory store inMemContents.                                          *)
(*                                                                         *)
(* Strings are sequences of one-character strings.  A uint64 / int64 is a  *)
(* tuple of four 16-bit limbs, least significant first, so that all        *)
(* arithmetic is done modulo 2^64 exactly as the Go code does it.          *)
(***************************************************************************)
EXTENDS Integers, Sequences, FiniteSets, TLC

VARIABLES
  pc,        \* "idle", "serving" (a request has arrived) or "done" (it is answered)
  listener,  \* the listener the request came in on: "http", "https" or "none"
  req,       \* the request being served
  resp,      \* the response the handler produced
  trace,     \* the calls the handler made, in order
  sample,    \* the specifier a channel comparison sends
  results,   \* the answers a channel comparison has received, by channel
  mainPc,     \* where the server's main is: "addHttp", "addHttps", "wait", "exited"
  shutdownPc, \* where the goroutine that waits on quit is
  quit,       \* the signals buffered in the quit channel (capacity 1)
  ctx,        \* the shutdown context: "none", "live" or "expired"
  wg,         \* the WaitGroup counter
  srv,        \* per server: its serve goroutine, its shutdown flag, its requests in flight
  url,        \* the client's base URL
  clientPc,   \* the loop sendSamples is in, or "returned"
  remaining,  \* the keys of the sample map the loop has not visited yet
  issued,     \* the probes made so far: loop, sample and the error returned
  mismatches, \* the diagnostics printed so far
  samplesErr, \* what sendSamples returns
  handlers,   \* per handler call: where it is, its request, its locals, its answer
  stores,     \* the content stores the calls have built
  writers     \* the response writers the calls were given

processVars == <<mainPc, shutdownPc, quit, ctx, wg, srv>>

clientVars == <<url, clientPc, remaining, issued, mismatches, samplesErr>>

callVars == <<handlers, stores, writers>>

vars ==
  <<pc, listener, req, resp, trace, sample, results, processVars, clientVars,
    callVars>>

Servers == {"http", "https"}

\* main has built both servers and started the goroutine that waits on quit.
ProcessInit ==
  /\ mainPc = "addHttp"
  /\ shutdownPc = "quit"
  /\ quit = 0
  /\ ctx = "none"
  /\ wg = 0
  /\ srv = [s \in Servers |-> [serve |-> "none", inShutdown |-> FALSE, active |-> 0]]

\* The client has not been started.
ClientIdle ==
  /\ url = <<>>
  /\ clientPc = "returned"
  /\ remaining = {}
  /\ issued = <<>>
  /\ mismatches = 0
  /\ samplesErr = "nil"

MaxCalls == 2

Calls == 1..MaxCalls

NoStore == [contents |-> <<>>]

NoParse == [offset |-> <<0, 0, 0, 0>>, length |-> <<0, 0, 0, 0>>, err |-> "nil"]

NoWriter == [header |-> <<>>, status |-> 0, sent |-> <<>>, body |-> <<>>, panic |-> FALSE]

IdleCall ==
  [pc |-> "idle", listener |-> "none",
   req |-> [method |-> "", header |-> <<>>, query |-> <<>>],
   rangeStr |-> <<>>, parsed |-> NoParse,
   resp |-> [status |-> 0, header |-> <<>>, body |-> <<>>]]

\* No handler call is running.
CallsIdle ==
  /\ handlers = [h \in Calls |-> IdleCall]
  /\ stores = [h \in Calls |-> NoStore]
  /\ writers = [h \in Calls |-> NoWriter]

Others == ProcessInit /\ ClientIdle /\ CallsIdle

----------------------------------------------------------------------------
(* 64-bit machine integers                                                 *)

\* One limb holds 16 bits; four limbs make the 64 bits of uint64 and int64.
Base == 65536

NumLimbs == 4

Zero64 == <<0, 0, 0, 0>>

One64 == <<1, 0, 0, 0>>

\* The int64 / uint64 whose value is the small natural n (n < 2^31).
FromNat(n) == <<n % Base, (n \div Base) % Base, 0, 0>>

\* The natural number a word holds, for words below 2^31.
ToNat(a) == a[1] + a[2] * Base

\* a + b + cin on limbs; carry is the bit that falls off the 64th position.
AddCarry(a, b, cin) ==
  LET s1 == a[1] + b[1] + cin
      s2 == a[2] + b[2] + (s1 \div Base)
      s3 == a[3] + b[3] + (s2 \div Base)
      s4 == a[4] + b[4] + (s3 \div Base)
  IN  [sum |-> <<s1 % Base, s2 % Base, s3 % Base, s4 % Base>>,
       carry |-> s4 \div Base]

Not64(a) == <<Base - 1 - a[1], Base - 1 - a[2], Base - 1 - a[3], Base - 1 - a[4]>>

\* Go's + on int64 and uint64: wraps modulo 2^64.
Add64(a, b) == AddCarry(a, b, 0).sum

\* Go's - on int64 and uint64: wraps modulo 2^64.
Sub64(a, b) == AddCarry(a, Not64(b), 1).sum

Neg64(a) == Sub64(Zero64, a)

\* The sign bit of the word read as an int64.
IsNeg64(a) == a[NumLimbs] >= Base \div 2

\* a < b, both read as uint64.
ULess64(a, b) ==
  \E i \in 1..NumLimbs :
     /\ a[i] < b[i]
     /\ \A j \in (i + 1)..NumLimbs : a[j] = b[j]

\* a < b, both read as int64.
SLess64(a, b) ==
  IF IsNeg64(a) # IsNeg64(b) THEN IsNeg64(a) ELSE ULess64(a, b)

\* a * 10 + d on limbs (d a decimal digit); carry # 0 when the result does
\* not fit in 64 bits.
MulTenAdd(a, d) ==
  LET s1 == a[1] * 10 + d
      s2 == a[2] * 10 + (s1 \div Base)
      s3 == a[3] * 10 + (s2 \div Base)
      s4 == a[4] * 10 + (s3 \div Base)
  IN  [sum |-> <<s1 % Base, s2 % Base, s3 % Base, s4 % Base>>,
       carry |-> s4 \div Base]

\* Quotient and remainder of the uint64 a by ten (long division, top limb first).
DivModTen(a) ==
  LET c4 == a[4]
      c3 == (c4 % 10) * Base + a[3]
      c2 == (c3 % 10) * Base + a[2]
      c1 == (c2 % 10) * Base + a[1]
  IN  [quot |-> <<c1 \div 10, c2 \div 10, c3 \div 10, c4 \div 10>>,
       rem |-> c1 % 10]

----------------------------------------------------------------------------
(* strings, strconv and fmt                                                *)

Digits == <<"0", "1", "2", "3", "4", "5", "6", "7", "8", "9">>

IsDigit(c) == \E i \in 1..10 : Digits[i] = c

DigitVal(c) == (CHOOSE i \in 1..10 : Digits[i] = c) - 1

\* strings.HasPrefix
HasPrefix(s, p) == Len(s) >= Len(p) /\ SubSeq(s, 1, Len(p)) = p

\* strings.TrimSpace: white space is cut from both ends.
IsSpace(c) == c \in {" ", "\t", "\n", "\r"}

RECURSIVE TrimLeft(_)
TrimLeft(s) ==
  IF s # <<>> /\ IsSpace(Head(s)) THEN TrimLeft(Tail(s)) ELSE s

RECURSIVE TrimRight(_)
TrimRight(s) ==
  IF s # <<>> /\ IsSpace(s[Len(s)]) THEN TrimRight(SubSeq(s, 1, Len(s) - 1)) ELSE s

TrimSpace(s) == TrimRight(TrimLeft(s))

\* strings.Split(s, sep) for a one-character separator: the pieces between
\* the separators, one more piece than there are separators.
RECURSIVE SplitFrom(_, _, _)
SplitFrom(s, sep, cur) ==
  IF s = <<>> THEN <<cur>>
  ELSE IF Head(s) = sep THEN <<cur>> \o SplitFrom(Tail(s), sep, <<>>)
  ELSE SplitFrom(Tail(s), sep, Append(cur, Head(s)))

Split(s, sep) == SplitFrom(s, sep, <<>>)

\* strconv.ParseUint(s, 10, 64): digits only, no sign, at least one digit; a
\* value above 2^64-1 is a range error.
RECURSIVE ParseDigits(_, _)
\* One digit has been taken in: n is the value so far times ten plus the digit.
ParseStep(rest, n) ==
  IF n.carry # 0 THEN [err |-> "ErrRange", val |-> Not64(Zero64)]
  ELSE ParseDigits(rest, n.sum)

ParseDigits(s, acc) ==
  IF s = <<>> THEN [err |-> "nil", val |-> acc]
  ELSE IF ~IsDigit(Head(s)) THEN [err |-> "ErrSyntax", val |-> Zero64]
  ELSE ParseStep(Tail(s), MulTenAdd(acc, DigitVal(Head(s))))

ParseUint(s) ==
  IF s = <<>> THEN [err |-> "ErrSyntax", val |-> Zero64]
  ELSE ParseDigits(s, Zero64)

\* strconv.FormatUint(a, 10)
RECURSIVE FormatUintDigits(_)
\* The digits of the quotient, then the digit of the remainder.
FormatStep(d) == Append(FormatUintDigits(d.quot), Digits[d.rem + 1])

FormatUintDigits(a) == IF a = Zero64 THEN <<>> ELSE FormatStep(DivModTen(a))

FormatUint(a) == IF a = Zero64 THEN <<"0">> ELSE FormatUintDigits(a)

\* strconv.FormatInt(a, 10) and fmt's %d of an int64.
FormatInt(a) == IF IsNeg64(a) THEN <<"-">> \o FormatUint(Neg64(a)) ELSE FormatUint(a)

----------------------------------------------------------------------------
(* the content store                                                       *)

\* The bytes of the package variable text.
text ==
  <<
     10, 112, 108, 97, 116, 101, 97, 32, 100, 105, 99, 116, 117, 109, 115, 116, 32, 113, 117, 105,
     115, 113, 117, 101, 32, 115, 97, 103, 105, 116, 116, 105, 115, 32, 112, 117, 114, 117, 115, 32,
     115, 105, 116, 32, 97, 109, 101, 116, 32, 118, 111, 108, 117, 116, 112, 97, 116, 32, 99, 111,
     110, 115, 101, 113, 117, 97, 116, 32, 109, 97, 117, 114, 105, 115, 32, 110, 117, 110, 99, 32,
     99, 111, 110, 103, 117, 101, 32, 110, 105, 115, 105, 32, 118, 105, 116, 97, 101, 32, 115, 117,
     115, 99, 105, 112, 105, 116, 32, 116, 101, 108, 108, 117, 115, 32, 109, 97, 117, 114, 105, 115,
     32, 97, 32, 100, 105, 97, 109, 32, 109, 97, 101, 99, 101, 110, 97, 115, 32, 115, 101, 100,
     32, 101, 110, 105, 109, 32, 117, 116, 32, 115, 101, 109, 32, 118, 105, 118, 101, 114, 114, 97,
     32, 97, 108, 105, 113, 117, 101, 116, 32, 101, 103, 101, 116, 32, 115, 105, 116, 32, 97, 109,
     101, 116, 32, 116, 101, 108, 108, 117, 115, 32, 99, 114, 97, 115, 32, 97, 100, 105, 112, 105,
     115, 99, 105, 110, 103, 32, 101, 110, 105, 109, 32, 101, 117, 32, 116, 117, 114, 112, 105, 115,
     32, 101, 103, 101, 115, 116, 97, 115, 32, 112, 114, 101, 116, 105, 117, 109, 32, 97, 101, 110,
     101, 97, 110, 32, 112, 104, 97, 114, 101, 116, 114, 97, 32, 109, 97, 103, 110, 97, 32, 97,
     99, 32, 112, 108, 97, 99, 101, 114, 97, 116, 32, 118, 101, 115, 116, 105, 98, 117, 108, 117,
     109, 32, 108, 101, 99, 116, 117, 115, 32, 109, 97, 117, 114, 105, 115, 32, 117, 108, 116, 114,
     105, 99, 101, 115, 32, 101, 114, 111, 115, 32, 105, 110, 32, 99, 117, 114, 115, 117, 115, 32,
     116, 117, 114, 112, 105, 115, 32, 109, 97, 115, 115, 97, 32, 116, 105, 110, 99, 105, 100, 117,
     110, 116, 32, 100, 117, 105, 32, 117, 116, 32, 111, 114, 110, 97, 114, 101, 32, 108, 101, 99,
     116, 117, 115, 32, 115, 105, 116, 32, 97, 109, 101, 116, 32, 101, 115, 116, 32, 112, 108, 97,
     99, 101, 114, 97, 116, 32, 105, 110, 32, 101, 103, 101, 115, 116, 97, 115, 32, 101, 114, 97,
     116, 32, 105, 109, 112, 101, 114, 100, 105, 101, 116, 32, 115, 101, 100, 32, 101, 117, 105, 115,
     109, 111, 100, 32, 110, 105, 115, 105, 32, 112, 111, 114, 116, 97, 32, 108, 111, 114, 101, 109,
     32, 109, 111, 108, 108, 105, 115, 32, 97, 108, 105, 113, 117, 97, 109, 32, 117, 116, 32, 112,
     111, 114, 116, 116, 105, 116, 111, 114, 32, 108, 101, 111, 32, 97, 32, 100, 105, 97, 109, 32,
     115, 111, 108, 108, 105, 99, 105, 116, 117, 100, 105, 110, 32, 116, 101, 109, 112, 111, 114, 32,
     105, 100, 32, 101, 117, 32, 110, 105, 115, 108, 32, 110, 117, 110, 99, 32, 109, 105, 32, 105,
     112, 115, 117, 109, 32, 102, 97, 117, 99, 105, 98, 117, 115, 32, 118, 105, 116, 97, 101, 32,
     97, 108, 105, 113, 117, 101, 116, 32, 110, 101, 99, 32, 117, 108, 108, 97, 109, 99, 111, 114,
     112, 101, 114, 32, 115, 105, 116, 32, 97, 109, 101, 116, 32, 114, 105, 115, 117, 115, 32, 110,
     117, 108, 108, 97, 109, 32, 101, 103, 101, 116, 32, 102, 101, 108, 105, 115, 32, 101, 103, 101,
     116, 32, 110, 117, 110, 99, 32, 108, 111, 98, 111, 114, 116, 105, 115, 32, 109, 97, 116, 116,
     105, 115, 32, 97, 108, 105, 113, 117, 97, 109, 32, 102, 97, 117, 99, 105, 98, 117, 115, 32,
     112, 117, 114, 117, 115, 32, 105, 110, 32, 109, 97, 115, 115, 97, 32, 116, 101, 109, 112, 111,
     114, 32, 110, 101, 99, 32, 102, 101, 117, 103, 105, 97, 116, 32, 110, 105, 115, 108, 32, 112,
     114, 101, 116, 105, 117, 109, 32, 102, 117, 115, 99, 101, 32, 105, 100, 32, 118, 101, 108, 105,
     116, 32, 117, 116, 32, 116, 111, 114, 116, 111, 114, 32, 112, 114, 101, 116, 105, 117, 109, 32,
     118, 105, 118, 101, 114, 114, 97, 32, 115, 117, 115, 112, 101, 110, 100, 105, 115, 115, 101, 32,
     112, 111, 116, 101, 110, 116, 105, 32, 110, 117, 108, 108, 97, 109, 32, 97, 99, 32, 116, 111,
     114, 116, 111, 114, 32, 118, 105, 116, 97, 101, 32, 112, 117, 114, 117, 115, 32, 102, 97, 117,
     99, 105, 98, 117, 115, 32, 111, 114, 110, 97, 114, 101, 32, 115, 117, 115, 112, 101, 110, 100,
     105, 115, 115, 101, 32, 115, 101, 100, 32, 110, 105, 115, 105, 32, 108, 97, 99, 117, 115, 32,
     115, 101, 100, 32, 118, 105, 118, 101, 114, 114, 97, 32, 116, 101, 108, 108, 117, 115, 32, 105,
     110, 32, 104, 97, 99, 32, 104, 97, 98, 105, 116, 97, 115, 115, 101, 32, 112, 108, 97, 116,
     101, 97, 32, 100, 105, 99, 116, 117, 109, 115, 116, 32, 118, 101, 115, 116, 105, 98, 117, 108,
     117, 109, 32, 114, 104, 111, 110, 99, 117, 115, 32, 101, 115, 116, 32, 112, 101, 108, 108, 101,
     110, 116, 101, 115, 113, 117, 101, 32, 101, 108, 105, 116, 32, 117, 108, 108, 97, 109, 99, 111,
     114, 112, 101, 114, 32, 100, 105, 103, 110, 105, 115, 115, 105, 109, 32, 99, 114, 97, 115, 32,
     116, 105, 110, 99, 105, 100, 117, 110, 116, 32, 108, 111, 98, 111, 114, 116, 105, 115, 32, 102,
     101, 117, 103, 105, 97, 116, 32, 118, 105, 118, 97, 109, 117, 115, 32, 97, 116, 32, 97, 117,
     103, 117, 101, 32, 101, 103, 101, 116, 32, 97, 114, 99, 117, 32, 100, 105, 99, 116, 117, 109,
     32, 118, 97, 114, 105, 117, 115, 32, 100, 117, 105, 115, 32, 97, 116, 32, 99, 111, 110, 115,
     101, 99, 116, 101, 116, 117, 114, 32, 108, 111, 114, 101, 109, 32, 100, 111, 110, 101, 99, 32,
     109, 97, 115, 115, 97, 32, 115, 97, 112, 105, 101, 110, 32, 102, 97, 117, 99, 105, 98, 117,
     115, 32, 101, 116, 32, 109, 111, 108, 101, 115, 116, 105, 101, 32, 97, 99, 32, 102, 101, 117,
     103, 105, 97, 116, 32, 115, 101, 100, 32, 108, 101, 99, 116, 117, 115, 32, 118, 101, 115, 116,
     105, 98, 117, 108, 117, 109, 32, 109, 97, 116, 116, 105, 115, 32, 117, 108, 108, 97, 109, 99,
     111, 114, 112, 101, 114, 32, 118, 101, 108, 105, 116, 32, 115, 101, 100, 32, 117, 108, 108, 97,
     109, 99, 111, 114, 112, 101, 114, 32, 109, 111, 114, 98, 105, 32, 116, 105, 110, 99, 105, 100,
     117, 110, 116, 32, 111, 114, 110, 97, 114, 101, 32, 109, 97, 115, 115, 97, 32, 101, 103, 101,
     116, 32, 101, 103, 101, 115, 116, 97, 115, 32, 112, 117, 114, 117, 115, 32, 118, 105, 118, 101,
     114, 114, 97, 32, 97, 99, 99, 117, 109, 115, 97, 110, 32, 105, 110, 32, 110, 105, 115, 108,
     32, 110, 105, 115, 105, 32, 115, 99, 101, 108, 101, 114, 105, 115, 113, 117, 101, 32, 101, 117,
     32, 117, 108, 116, 114, 105, 99, 101, 115, 32, 118, 105, 116, 97, 101, 32, 97, 117, 99, 116,
     111, 114, 32, 101, 117, 32, 97, 117, 103, 117, 101, 32, 117, 116, 32, 108, 101, 99, 116, 117,
     115, 32, 97, 114, 99, 117, 32, 98, 105, 98, 101, 110, 100, 117, 109, 32, 97, 116, 32, 118,
     97, 114, 105, 117, 115, 32, 118, 101, 108, 32, 112, 104, 97, 114, 101, 116, 114, 97, 32, 118,
     101, 108, 32, 116, 117, 114, 112, 105, 115, 32, 110, 117, 110, 99, 32, 101, 103, 101, 116, 32,
     108, 111, 114, 101, 109, 32, 100, 111, 108, 111, 114, 32, 115, 101, 100, 32, 118, 105, 118, 101,
     114, 114, 97, 32, 105, 112, 115, 117, 109, 32, 110, 117, 110, 99, 32, 97, 108, 105, 113, 117,
     101, 116, 32, 98, 105, 98, 101, 110, 100, 117, 109, 32, 101, 110, 105, 109, 32, 102, 97, 99,
     105, 108, 105, 115, 105, 115, 32, 103, 114, 97, 118, 105, 100, 97, 32, 110, 101, 113, 117, 101,
     32, 99, 111, 110, 118, 97, 108, 108, 105, 115, 32, 97, 32, 99, 114, 97, 115, 32, 115, 101,
     109, 112, 101, 114, 32, 97, 117, 99, 116, 111, 114, 32, 110, 101, 113, 117, 101, 32, 118, 105,
     116, 97, 101, 32, 116, 101, 109, 112, 117, 115, 32, 113, 117, 97, 109, 32, 112, 101, 108, 108,
     101, 110, 116, 101, 115, 113, 117, 101, 32, 110, 101, 99, 32, 110, 97, 109, 32, 97, 108, 105,
     113, 117, 97, 109, 32, 115, 101, 109, 32, 101, 116, 32, 116, 111, 114, 116, 111, 114, 32, 99,
     111, 110, 115, 101, 113, 117, 97, 116, 32, 105, 100, 32, 112, 111, 114, 116, 97, 32, 110, 105,
     98, 104, 32, 118, 101, 110, 101, 110, 97, 116, 105, 115, 32, 99, 114, 97, 115, 32, 115, 101,
     100, 32, 102, 101, 108, 105, 115, 32, 101, 103, 101, 116, 32, 118, 101, 108, 105, 116, 32, 97,
     108, 105, 113, 117, 101, 116, 32, 115, 97, 103, 105, 116, 116, 105, 115, 32, 105, 100, 32, 99,
     111, 110, 115, 101, 99, 116, 101, 116, 117, 114, 32, 112, 117, 114, 117, 115, 32, 117, 116, 32,
     102, 97, 117, 99, 105, 98, 117, 115, 32, 112, 117, 108, 118, 105, 110, 97, 114, 32, 101, 108,
     101, 109, 101, 110, 116, 117, 109, 32, 105, 110, 116, 101, 103, 101, 114, 32, 101, 110, 105, 109,
     32, 110, 101, 113, 117, 101, 32, 118, 111, 108, 117, 116, 112, 97, 116, 32, 97, 99, 32, 116,
     105, 110, 99, 105, 100, 117, 110, 116, 32, 118, 105, 116, 97, 101, 32, 115, 101, 109, 112, 101,
     114, 32, 113, 117, 105, 115, 32, 108, 101, 99, 116, 117, 115, 32, 110, 117, 108, 108, 97, 32,
     97, 116, 32, 118, 111, 108, 117, 116, 112, 97, 116, 32, 100, 105, 97, 109, 32, 117, 116, 32,
     118, 101, 110, 101, 110, 97, 116, 105, 115, 32, 116, 101, 108, 108, 117, 115, 32, 105, 110, 32,
     109, 101, 116, 117, 115, 32, 118, 117, 108, 112, 117, 116, 97, 116, 101, 32, 101, 117, 32, 115,
     99, 101, 108, 101, 114, 105, 115, 113, 117, 101, 32, 102, 101, 108, 105, 115, 32, 105, 109, 112,
     101, 114, 100, 105, 101, 116, 32, 112, 114, 111, 105, 32, 102, 101, 114, 109, 101, 110, 116, 117,
     109, 32, 108, 101, 111, 32, 118, 101, 108, 32, 111, 114, 99, 105, 32, 112, 111, 114, 116, 97,
     32, 110, 111, 110, 32, 112, 117, 108, 118, 105, 110, 97, 114, 32, 110, 101, 113, 117, 101, 32,
     108, 97, 111, 114, 101, 101, 116, 32, 115, 117, 115, 112, 101, 110, 100, 105, 115, 115, 101, 32,
     105, 110, 116, 101, 114, 100, 117, 109, 32, 99, 111, 110, 115, 101, 99, 116, 101, 116, 117, 114,
     32, 108, 105, 98, 101, 114, 111, 32, 105, 100, 32, 102, 97, 117, 99, 105, 98, 117, 115, 32,
     110, 105, 115, 108, 32, 116, 105, 110, 99, 105, 100, 117, 110, 116, 32, 101, 103, 101, 116, 32,
     110, 117, 108, 108, 97, 109, 32, 110, 111, 110, 32, 110, 105, 115, 105, 32, 101, 115, 116, 32,
     115, 105, 116, 32, 97, 109, 101, 116, 32, 102, 97, 99, 105, 108, 105, 115, 105, 115, 32, 109,
     97, 103, 110, 97, 32, 101, 116, 105, 97, 109, 32, 116, 101, 109, 112, 111, 114, 32, 111, 114,
     99, 105, 32, 101, 117, 32, 108, 111, 98, 111, 114, 116, 105, 115, 32, 101, 108, 101, 109, 101,
     110, 116, 117, 109, 32, 110, 105, 98, 104, 32, 116, 101, 108, 108, 117, 115, 32, 109, 111, 108,
     101, 115, 116, 105, 101, 32, 110, 117, 110, 99, 32, 110, 111, 110, 32, 98, 108, 97, 110, 100,
     105, 116, 32, 109, 97, 115, 115, 97, 32, 101, 110, 105, 109, 32, 110, 101, 99, 32, 100, 117,
     105, 32, 110, 117, 110, 99, 32, 109, 97, 116, 116, 105, 115, 32, 101, 110, 105, 109, 32, 117,
     116, 32, 116, 101, 108, 108, 117, 115, 32, 101, 108, 101, 109, 101, 110, 116, 117, 109, 32, 115,
     97, 103, 105, 116, 116, 105, 115, 32, 118, 105, 116, 97, 101, 32, 101, 116, 32, 108, 101, 111,
     32, 100, 117, 105, 115, 32, 117, 116, 32, 100, 105, 97, 109, 32, 113, 117, 97, 109, 32, 110,
     117, 108, 108, 97, 32, 112, 111, 114, 116, 116, 105, 116, 111, 114, 32, 109, 97, 115, 115, 97,
     32, 105, 100, 32, 110, 101, 113, 117, 101, 32, 97, 108, 105, 113, 117, 97, 109, 32, 118, 101,
     115, 116, 105, 98, 117, 108, 117, 109, 32, 109, 111, 114, 98, 105, 32, 98, 108, 97, 110, 100,
     105, 116, 32, 99, 117, 114, 115, 117, 115, 32, 114, 105, 115, 117, 115, 32, 97, 116, 32, 117,
     108, 116, 114, 105, 99, 101, 115, 32, 109, 105, 32, 116, 101, 109, 112, 117, 115, 32, 105, 109,
     112, 101, 114, 100, 105, 101, 116, 32, 110, 117, 108, 108, 97, 32, 109, 97, 108, 101, 115, 117,
     97, 100, 97, 32, 112, 101, 108, 108, 101, 110, 116, 101, 115, 113, 117, 101, 32, 101, 108, 105,
     116, 32, 101, 103, 101, 116, 32, 103, 114, 97, 118, 105, 100, 97, 32, 99, 117, 109, 32, 115,
     111, 99, 105, 105, 115, 32, 110, 97, 116, 111, 113, 117, 101, 32, 112, 101, 110, 97, 116, 105,
     98, 117, 115, 32, 101, 116, 32, 109, 97, 103, 110, 105, 115, 32, 100, 105, 115, 32, 112, 97,
     114, 116, 117, 114, 105, 101, 110, 116, 32, 109, 111, 110, 116, 101, 115, 32, 110, 97, 115, 99,
     101, 116, 117, 114, 32, 114, 105, 100, 105, 99, 117, 108, 117, 115, 32, 109, 117, 115, 32, 109,
     97, 117, 114, 105, 115, 32, 118, 105, 116, 97, 101, 32, 117, 108, 116, 114, 105, 99, 105, 101,
     115, 32, 108, 101, 111, 32, 105, 110, 116, 101, 103, 101, 114, 32, 109, 97, 108, 101, 115, 117,
     97, 100, 97, 32, 110, 117, 110, 99, 32, 118, 101, 108, 32, 114, 105, 115, 117, 115, 32, 99,
     111, 109, 109, 111, 100, 111, 32, 118, 105, 118, 101, 114, 114, 97, 32, 109, 97, 101, 99, 101,
     110, 97, 115, 32, 97, 99, 99, 117, 109, 115, 97, 110, 32, 108, 97, 99, 117, 115, 32, 118,
     101, 108, 32, 102, 97, 99, 105, 108, 105, 115, 105, 115, 32, 118, 111, 108, 117, 116, 112, 97,
     116, 32, 101, 115, 116, 32, 118, 101, 108, 105, 116, 32, 101, 103, 101, 115, 116, 97, 115, 32,
     100, 117, 105, 32, 105, 100, 32, 111, 114, 110, 97, 114, 101, 32, 97, 114, 99, 117, 32, 111,
     100, 105, 111, 32, 117, 116, 32, 115, 101, 109, 32, 110, 117, 108, 108, 97, 32, 112, 104, 97,
     114, 101, 116, 114, 97, 32, 100, 105, 97, 109, 32, 115, 105, 116, 32, 97, 109, 101, 116, 32,
     110, 105, 115, 108, 32, 115, 117, 115, 99, 105, 112, 105, 116, 32, 97, 100, 105, 112, 105, 115,
     99, 105, 110, 103, 32, 98, 105, 98, 101, 110, 100, 117, 109, 32, 101, 115, 116, 32, 117, 108,
     116, 114, 105, 99, 105, 101, 115, 32, 105, 110, 116, 101, 103, 101, 114, 32, 113, 117, 105, 115,
     32, 97, 117, 99, 116, 111, 114, 32, 101, 108, 105, 116, 32, 115, 101, 100, 32, 118, 117, 108,
     112, 117, 116, 97, 116, 101, 32, 109, 105, 32, 115, 105, 116, 32, 97, 109, 101, 116, 32, 109,
     97, 117, 114, 105, 115, 32, 99, 111, 109, 109, 111, 100, 111, 32, 113, 117, 105, 115, 32, 105,
     109, 112, 101, 114, 100, 105, 101, 116, 32, 109, 97, 115, 115, 97, 32, 116, 105, 110, 99, 105,
     100, 117, 110, 116, 32, 110, 117, 110, 99, 32, 112, 117, 108, 118, 105, 110, 97, 114, 32, 115,
     97, 112, 105, 101, 110, 32, 101, 116, 32, 108, 105, 103, 117, 108, 97, 32, 117, 108, 108, 97,
     109, 99, 111, 114, 112, 101, 114, 32, 109, 97, 108, 101, 115, 117, 97, 100, 97, 32, 112, 114,
     111, 105, 110, 32, 108, 105, 98, 101, 114, 111, 32, 110, 117, 110, 99, 32, 99, 111, 110, 115,
     101, 113, 117, 97, 116, 32, 105, 110, 116, 101, 114, 100, 117, 109, 32, 118, 97, 114, 105, 117,
     115, 32, 115, 105, 116, 32, 97, 109, 101, 116, 32, 109, 97, 116, 116, 105, 115, 32, 118, 117,
     108, 112, 117, 116, 97, 116, 101, 32, 101, 110, 105, 109, 32, 110, 117, 108, 108, 97, 32, 97,
     108, 105, 113, 117, 101, 116, 32, 112, 111, 114, 116, 116, 105, 116, 111, 114, 32, 108, 97, 99,
     117, 115, 32, 108, 117, 99, 116, 117, 115, 32, 97, 99, 99, 117, 109, 115, 97, 110, 32, 116,
     111, 114, 116, 111, 114, 32, 112, 111, 115, 117, 101, 114, 101, 32, 97, 99, 32, 117, 116, 32,
     99, 111, 110, 115, 101, 113, 117, 97, 116, 32, 115, 101, 109, 112, 101, 114, 32, 118, 105, 118,
     101, 114, 114, 97, 32, 110, 97, 109, 32, 108, 105, 98, 101, 114, 111, 32, 106, 117, 115, 116,
     111, 32, 108, 97, 111, 114, 101, 101, 116, 32, 115, 105, 116, 32, 97, 109, 101, 116, 32, 99,
     117, 114, 115, 117, 115, 32, 115, 105, 116, 32, 97, 109, 101, 116, 32, 100, 105, 99, 116, 117,
     109, 32, 115, 105, 116, 32, 97, 109, 101, 116, 32, 106, 117, 115, 116, 111, 32, 100, 111, 110,
     101, 99, 32, 101, 110, 105, 109, 32, 100, 105, 97, 109, 32, 118, 117, 108, 112, 117, 116, 97,
     116, 101, 32, 117, 116, 32, 112, 104, 97, 114, 101, 116, 114, 97, 32, 115, 105, 116, 32, 97,
     109, 101, 116, 32, 97, 108, 105, 113, 117, 97, 109, 32, 105, 100, 32, 100, 105, 97, 109, 32,
     109, 97, 101, 99, 101, 110, 97, 115, 32, 117, 108, 116, 114, 105, 99, 105, 101, 115, 32, 109,
     105, 32, 101, 103, 101, 116, 32, 109, 97, 117, 114, 105, 115, 32, 112, 104, 97, 114, 101, 116,
     114, 97, 32, 101, 116, 32, 117, 108, 116, 114, 105, 99, 101, 115, 32, 110, 101, 113, 117, 101,
     32, 111, 114, 110, 97, 114, 101, 32, 97, 101, 110, 101, 97, 110, 32, 101, 117, 105, 115, 109,
     111, 100, 32, 101, 108, 101, 109, 101, 110, 116, 117, 109, 32, 110, 105, 115, 105, 32, 113, 117,
     105, 115, 32, 101, 108, 101, 105, 102, 101, 110, 100, 32, 113, 117, 97, 109, 32, 97, 100, 105,
     112, 105, 115, 99, 105, 110, 103, 32, 118, 105, 116, 97, 101, 32, 112, 114, 111, 105, 110, 32,
     115, 97, 103, 105, 116, 116, 105, 115, 32, 110, 105, 115, 108, 32, 114, 104, 111, 110, 99, 117,
     115, 32, 109, 97, 116, 116, 105, 115, 32, 114, 104, 111, 110, 99, 117, 115, 32, 117, 114, 110,
     97, 32, 110, 101, 113, 117, 101, 32, 118, 105, 118, 101, 114, 114, 97, 32, 106, 117, 115, 116,
     111, 32, 110, 101, 99, 32, 117, 108, 116, 114, 105, 99, 101, 115, 32, 100, 117, 105, 32, 115,
     97, 112, 105, 101, 110, 32, 101, 103, 101, 116, 32, 109, 105, 32, 112, 114, 111, 105, 110, 32,
     115, 101, 100, 32, 108, 105, 98, 101, 114, 111, 32, 101, 110, 105, 109, 32, 115, 101, 100, 32,
     102, 97, 117, 99, 105, 98, 117, 115, 32, 116, 117, 114, 112, 105, 115, 32, 105, 110, 32, 101,
     117, 32, 109, 105, 32, 98, 105, 98, 101, 110, 100, 117, 109, 32, 110, 101, 113, 117, 101, 32,
     101, 103, 101, 115, 116, 97, 115, 32, 99, 111, 110, 103, 117, 101, 32, 113, 117, 105, 115, 113,
     117, 101, 32, 101, 103, 101, 115, 116, 97, 115, 32, 100, 105, 97, 109, 32, 105, 110, 32, 97,
     114, 99, 117, 32, 99, 117, 114, 115, 117, 115, 32, 101, 117, 105, 115, 109, 111, 100, 32, 113,
     117, 105, 115, 32, 118, 105, 118, 101, 114, 114, 97, 32, 110, 105, 98, 104, 32, 99, 114, 97,
     115, 32, 112, 117, 108, 118, 105, 110, 97, 114, 32, 109, 97, 116, 116, 105, 115, 32, 110, 117,
     110, 99, 32, 115, 101, 100, 32, 98, 108, 97, 110, 100, 105, 116, 32, 108, 105, 98, 101, 114,
     111, 32, 118, 111, 108, 117, 116, 112, 97, 116, 32, 115, 101, 100, 32, 99, 114, 97, 115, 32,
     111, 114, 110, 97, 114, 101, 32, 97, 114, 99, 117, 32, 100, 117, 105, 32, 118, 105, 118, 97,
     109, 117, 115, 32, 97, 114, 99, 117, 32, 102, 101, 108, 105, 115, 32, 98, 105, 98, 101, 110,
     100, 117, 109, 32, 117, 116, 32, 116, 114, 105, 115, 116, 105, 113, 117, 101, 32, 101, 116, 32,
     101, 103, 101, 115, 116, 97, 115, 32, 113, 117, 105, 115, 32, 105, 112, 115, 117, 109, 32, 115,
     117, 115, 112, 101, 110, 100, 105, 115, 115, 101, 32, 117, 108, 116, 114, 105, 99, 101, 115, 32,
     103, 114, 97, 118, 105, 100, 97, 32, 100, 105, 99, 116, 117, 109, 32, 102, 117, 115, 99, 101,
     32, 117, 116, 32, 112, 108, 97, 99, 101, 114, 97, 116, 32, 111, 114, 99, 105, 32, 110, 117,
     108, 108, 97, 32, 112, 101, 108, 108, 101, 110, 116, 101, 115, 113, 117, 101, 32, 100, 105, 103,
     110, 105, 115, 115, 105, 109, 32, 101, 110, 105, 109, 32, 115, 105, 116, 32, 97, 109, 101, 116,
     32, 118, 101, 110, 101, 110, 97, 116, 105, 115, 32, 117, 114, 110, 97, 32, 99, 117, 114, 115,
     117, 115, 32, 101, 103, 101, 116, 32, 110, 117, 110, 99, 32, 115, 99, 101, 108, 101, 114, 105,
     115, 113, 117, 101, 32, 118, 105, 118, 101, 114, 114, 97, 32, 109, 97, 117, 114, 105, 115, 32,
     105, 110, 32, 97, 108, 105, 113, 117, 97, 109, 32, 115, 101, 109, 32, 102, 114, 105, 110, 103,
     105, 108, 108, 97, 32, 117, 116, 32, 109, 111, 114, 98, 105, 32, 116, 105, 110, 99, 105, 100,
     117, 110, 116, 32, 97, 117, 103, 117, 101, 32, 105, 110, 116, 101, 114, 100, 117, 109, 32, 118,
     101, 108, 105, 116, 32, 101, 117, 105, 115, 109, 111, 100, 32, 105, 110, 32, 112, 101, 108, 108,
     101, 110, 116, 101, 115, 113, 117, 101, 32, 109, 97, 115, 115, 97, 32, 112, 108, 97, 99, 101,
     114, 97, 116, 32, 100, 117, 105, 115, 32, 117, 108, 116, 114, 105, 99, 105, 101, 115, 32, 108,
     97, 99, 117, 115, 32, 115, 101, 100, 32, 116, 117, 114, 112, 105, 115, 32, 116, 105, 110, 99,
     105, 100, 117, 110, 116, 32, 105, 100, 32, 97, 108, 105, 113, 117, 101, 116, 32, 114, 105, 115,
     117, 115, 32, 102, 101, 117, 103, 105, 97, 116, 32, 105, 110, 32, 97, 110, 116, 101, 32, 109,
     101, 116, 117, 115, 32, 100, 105, 99, 116, 117, 109, 32, 97, 116, 32, 116, 101, 109, 112, 111,
     114, 32, 99, 111, 109, 109, 111, 100, 111, 32, 117, 108, 108, 97, 109, 99, 111, 114, 112, 10
  >>

\* newContents: a fresh store holding the bytes of text (the mutex is never
\* locked by any method).
newContents == [contents |-> text]

\* inMemContents.Len
ContentsLen(c) == FromNat(Len(c.contents))

\* Mutant of ReadAll: the slice starts one byte late.
ReadAllShort(c) == Tail(c.contents)

\* inMemContents.ReadAll
ReadAll(c) == c.contents

\* The slice expression c.contents[start:end]; Go panics when the indices
\* are not 0 <= start <= end <= the slice's extent.
SliceOf(bytes, start, end) ==
  IF IsNeg64(start) \/ SLess64(end, start) \/ SLess64(FromNat(Len(bytes)), end)
  THEN [panic |-> TRUE, b |-> <<>>]
  ELSE [panic |-> FALSE, b |-> SubSeq(bytes, ToNat(start) + 1, ToNat(end))]

\* The bounds check of ReadRange: end < start || end > c.Len() || start < 0
OutOfRange(c, start, end) ==
  SLess64(end, start) \/ SLess64(ContentsLen(c), end) \/ IsNeg64(start)

\* ReadRange's return of the slice, without error.
Sliced(sl) == [err |-> "nil", panic |-> sl.panic, b |-> sl.b]

\* inMemContents.ReadRange(start, end)
ReadRange(c, start, end) ==
  IF OutOfRange(c, start, end)
  THEN [err |-> "errInvalidRange", panic |-> FALSE, b |-> <<>>]
  ELSE Sliced(SliceOf(c.contents, start, end))

----------------------------------------------------------------------------
(* the range parser                                                        *)

BytesPrefix == <<"b", "y", "t", "e", "s", "=">>

\* What offsetAndLenFromRange returns with an error.
RangeError(err) == [offset |-> Neg64(One64), length |-> Neg64(One64), err |-> err]

\* offsetAndLenFromRange, the suffix form bytes=-N, with N parsed
SuffixRange(length, contentSize) ==
  IF length.err # "nil" THEN RangeError("errInvalidRangeStr")
  ELSE [offset |-> Sub64(contentSize, length.val), length |-> length.val, err |-> "nil"]

\* offsetAndLenFromRange, the open-prefix form bytes=N-, with N parsed
PrefixRange(offset, contentSize) ==
  IF offset.err # "nil" THEN RangeError(offset.err)
  ELSE [offset |-> offset.val, length |-> Sub64(contentSize, offset.val), err |-> "nil"]

\* Mutant of FullLength: the + 1 is left out.
FullLengthNoPlusOne(start, end) == Sub64(end, start)

\* offsetAndLenFromRange, the full form bytes=A-B: int64(end-start) + 1
FullLength(start, end) == Add64(Sub64(end, start), One64)

\* offsetAndLenFromRange, the full form bytes=A-B, with A and B parsed
FullRange(start, end) ==
  IF start.err # "nil" THEN RangeError(start.err)
  ELSE IF end.err # "nil" THEN RangeError(end.err)
  ELSE [offset |-> start.val, length |-> FullLength(start.val, end.val), err |-> "nil"]

\* offsetAndLenFromRange once the string is split at '-'
TokensRange(tokens, contentSize) ==
  IF Len(tokens) # 2 THEN RangeError("errInvalidRangeStr")
  ELSE IF tokens[1] = <<>>
  THEN SuffixRange(ParseUint(TrimSpace(tokens[2])), contentSize)
  ELSE IF tokens[2] = <<>>
  THEN PrefixRange(ParseUint(TrimSpace(tokens[1])), contentSize)
  ELSE FullRange(ParseUint(TrimSpace(tokens[1])), ParseUint(TrimSpace(tokens[2])))

\* Mutant of HasBytesPrefix: only the length of the prefix is checked.
HasBytesPrefixLoose(rngStr) == Len(rngStr) >= Len(BytesPrefix)

\* strings.HasPrefix(rngStr, "bytes=")
HasBytesPrefix(rngStr) == HasPrefix(rngStr, BytesPrefix)

offsetAndLenFromRange(rngStr, contentSize) ==
  IF rngStr = <<>>
  THEN [offset |-> Neg64(One64), length |-> Neg64(One64), err |-> "nil"]
  ELSE IF ~HasBytesPrefix(rngStr) THEN RangeError("errInvalidRangeStr")
  ELSE TokensRange(Split(SubSeq(rngStr, Len(BytesPrefix) + 1, Len(rngStr)), "-"),
                   contentSize)

----------------------------------------------------------------------------
(* http.ResponseWriter and http.Request                                    *)

\* w.Header().Add(key, value)
HeaderAdd(w, key, value) ==
  [w EXCEPT !.header =
     [k \in DOMAIN w.header \cup {key} |->
        IF k = key
        THEN (IF key \in DOMAIN w.header THEN w.header[key] ELSE <<>>) \o <<value>>
        ELSE w.header[k]]]

\* w.WriteHeader(code): the first call fixes the status and the headers that
\* go out; a later call changes nothing.
WriteHeader(w, code) ==
  IF w.status # 0 THEN w
  ELSE [w EXCEPT !.status = code, !.sent = w.header]

\* w.Write(b): writes the header with 200 when none was written yet.
Append2Body(w, b) == [w EXCEPT !.body = w.body \o b]

Write(w, b) == Append2Body(WriteHeader(w, 200), b)

\* A handler that panics sends nothing more; net/http drops the connection.
Panic(w) == [w EXCEPT !.panic = TRUE]

\* The writer a handler is called with.
NewWriter == [header |-> <<>>, status |-> 0, sent |-> <<>>, body |-> <<>>, panic |-> FALSE]

\* What the client receives once the handler has returned.
Sent(w) == [status |-> w.status, header |-> w.sent, body |-> w.body]

Response(w) ==
  IF w.panic THEN [status |-> -1, header |-> w.sent, body |-> w.body]
  ELSE Sent(WriteHeader(w, 200))

\* http.Header.Get canonicalises the key it is given; the keys of an
\* incoming request's header are canonical already.
CanonicalHeaderKey(key) ==
  CASE key = "range" -> "Range"
    [] key = "x-dolt-range" -> "X-Dolt-Range"
    [] OTHER -> key

HeaderGet(h, key) ==
  LET k == CanonicalHeaderKey(key)
  IN  IF k \in DOMAIN h THEN h[k] ELSE <<>>

\* url.Values.Get: the name is matched as written.
QueryGet(q, key) == IF key \in DOMAIN q THEN q[key] ELSE <<>>

Call(op, args) == [op |-> op, args |-> args]

----------------------------------------------------------------------------
(* the responder and the dispatcher                                        *)

\* Mutant of ContentRangeOf: the last position is given exclusive.
ContentRangeEndExclusive(offset, length, total) ==
  <<"b", "y", "t", "e", "s", " ">> \o FormatInt(offset) \o <<"-">>
     \o FormatInt(Add64(offset, length)) \o <<"/">> \o FormatInt(total)

\* fmt.Sprintf("bytes %d-%d/%d", offset, offset+length-1, contents.Len())
ContentRangeOf(offset, length, total) ==
  <<"b", "y", "t", "e", "s", " ">> \o FormatInt(offset) \o <<"-">>
     \o FormatInt(Sub64(Add64(offset, length), One64)) \o <<"/">> \o FormatInt(total)

\* fmt.Sprintf("%d", length)
ContentLengthOf(length) == FormatInt(length)

\* writeContentRange after the headers and the body are written: the check
\* that all of length went out.
rangeWritten(w, length, b, calls) ==
  IF FromNat(Len(b)) # length THEN [w |-> Panic(w), calls |-> calls]
  ELSE [w |-> w, calls |-> calls]

\* writeContentRange after ReadRange returned rd
rangeRead(w, contents, r, rd, calls) ==
  IF rd.panic THEN [w |-> Panic(w), calls |-> calls]
  ELSE IF rd.err # "nil" THEN [w |-> WriteHeader(w, 400), calls |-> calls]
  ELSE rangeWritten(
         Write(WriteHeader(
                 HeaderAdd(HeaderAdd(w, "Content-Range",
                                     ContentRangeOf(r.offset, r.length,
                                                    ContentsLen(contents))),
                           "Content-Length", ContentLengthOf(r.length)),
                 206),
               rd.b),
         r.length, rd.b, calls)

\* writeContentRange after offsetAndLenFromRange returned r
rangeParsed(w, contents, r, calls) ==
  IF r.err # "nil" THEN [w |-> WriteHeader(w, 400), calls |-> calls]
  ELSE rangeRead(w, contents, r,
                 ReadRange(contents, r.offset, Add64(r.offset, r.length)),
                 Append(calls, Call("ReadRange", <<r.offset, Add64(r.offset, r.length)>>)))

writeContentRange(w, contents, rangeStr) ==
  rangeParsed(w, contents,
              offsetAndLenFromRange(rangeStr, ContentsLen(contents)),
              <<Call("offsetAndLenFromRange", <<rangeStr>>)>>)

\* Mutant of MethodRefused: only POST is turned away.
MethodRefusedOnlyPost(method) == method = "POST"

\* req.Method != http.MethodGet
MethodRefused(method) == method # "GET"

\* The body of the answer to a refused method.
OnlyGetMsg == <<111, 110, 108, 121, 32, 71, 69, 84, 32, 114, 101, 113, 117, 101, 115, 116, 115, 32, 115, 117, 112, 112, 111, 114, 116, 101, 100, 46>>

\* Mutant of rangeHeaderOf: a Range header that does not parse is taken as
\* absent, so that the next channel is tried.
rangeHeaderSkipsMalformed(r) ==
  IF offsetAndLenFromRange(HeaderGet(r.header, "Range"), Zero64).err # "nil"
  THEN [val |-> <<>>, calls |-> <<Call("Header.Get", <<"Range">>)>>]
  ELSE [val |-> HeaderGet(r.header, "Range"), calls |-> <<Call("Header.Get", <<"Range">>)>>]

\* req.Header.Get("Range"), then "range" when that is empty.
rangeHeaderOf(r) ==
  LET v == HeaderGet(r.header, "Range")
  IN  IF v = <<>>
      THEN [val |-> HeaderGet(r.header, "range"),
            calls |-> <<Call("Header.Get", <<"Range">>), Call("Header.Get", <<"range">>)>>]
      ELSE [val |-> v, calls |-> <<Call("Header.Get", <<"Range">>)>>]

\* Mutant of xRangeHeaderOf: the header is looked up under another name.
xRangeHeaderMisnamed(r) ==
  [val |-> HeaderGet(r.header, "X-Range"),
   calls |-> <<Call("Header.Get", <<"X-Range">>)>>]

\* req.Header.Get("X-Dolt-Range"), then "x-dolt-range" when that is empty.
xRangeHeaderOf(r) ==
  LET v == HeaderGet(r.header, "X-Dolt-Range")
  IN  IF v = <<>>
      THEN [val |-> HeaderGet(r.header, "x-dolt-range"),
            calls |-> <<Call("Header.Get", <<"X-Dolt-Range">>),
                        Call("Header.Get", <<"x-dolt-range">>)>>]
      ELSE [val |-> v, calls |-> <<Call("Header.Get", <<"X-Dolt-Range">>)>>]

\* req.URL.Query().Get("Range"), then "range" when that is empty.
rangeParamOf(r) ==
  LET v == QueryGet(r.query, "Range")
  IN  IF v = <<>>
      THEN [val |-> QueryGet(r.query, "range"),
            calls |-> <<Call("Query.Get", <<"Range">>), Call("Query.Get", <<"range">>)>>]
      ELSE [val |-> v, calls |-> <<Call("Query.Get", <<"Range">>)>>]

\* The tail of serveContents: no range was asked for, all content is sent.
serveAll(w, contents) ==
  LET b == ReadAll(contents)
      w1 == HeaderAdd(w, "Content-Length", FormatInt(ContentsLen(contents)))
      w2 == Write(WriteHeader(w1, 200), b)
  IN  [w |-> w2, calls |-> <<Call("ReadAll", <<>>)>>]

\* Runs next after the calls made so far.
Then(calls, out) == [w |-> out.w, calls |-> calls \o out.calls]

\* Mutant of serveParam: the parameter is passed on without the test for empty.
serveParamUnguarded(w, contents, rangeParam) ==
  Then(rangeParam.calls, writeContentRange(w, contents, rangeParam.val))

\* serveContents from the query parameter on
serveParam(w, contents, rangeParam) ==
  IF rangeParam.val # <<>>
  THEN Then(rangeParam.calls, writeContentRange(w, contents, rangeParam.val))
  ELSE Then(rangeParam.calls, serveAll(w, contents))

\* serveContents from the x-dolt-range header on
serveXRange(w, r, contents, xRangeHeader) ==
  IF xRangeHeader.val # <<>>
  THEN Then(xRangeHeader.calls, writeContentRange(w, contents, xRangeHeader.val))
  ELSE Then(xRangeHeader.calls, serveParam(w, contents, rangeParamOf(r)))

\* serveContents from the range header on
serveRange(w, r, contents, rangeHeader) ==
  IF rangeHeader.val # <<>>
  THEN Then(rangeHeader.calls, writeContentRange(w, contents, rangeHeader.val))
  ELSE Then(rangeHeader.calls, serveXRange(w, r, contents, xRangeHeaderOf(r)))

serveContents(w, r, contents) ==
  IF MethodRefused(r.method)
  THEN [w |-> Write(WriteHeader(w, 400), OnlyGetMsg), calls |-> <<>>]
  ELSE serveRange(HeaderAdd(w, "Accept-Ranges", <<"b", "y", "t", "e", "s">>), r, contents,
                  rangeHeaderOf(r))

----------------------------------------------------------------------------
(* the requests the model serves                                           *)

RECURSIVE Join(_, _)
Join(tokens, sep) ==
  IF Len(tokens) = 0 THEN <<>>
  ELSE IF Len(tokens) = 1 THEN tokens[1]
  ELSE tokens[1] \o <<sep>> \o Join(Tail(tokens), sep)

\* The most '-'-separated tokens a generated specifier has.
MaxTokens == 3

\* Tokens on both sides of the '-': empty, numbers around the store's edges
\* and around 2^63 and 2^64, padded and signed numbers, and words.
Tokens ==
  { <<>>, <<"0">>, <<"1">>, <<"4">>, <<"5">>, <<"8", "0">>, <<"1", "0", "0", "0">>, <<"2", "5", "0", "0">>, <<"2", "5", "9", "9">>,
    <<"3", "9", "9", "9">>, <<"4", "0", "0", "0">>, <<"4", "0", "0", "1">>, <<"0", "0", "7">>, <<" ", "7", " ">>, <<"x">>, <<"a", "b", "c">>, <<"1", "2", "3">>, <<"+", "1">>,
    <<"9", "2", "2", "3", "3", "7", "2", "0", "3", "6", "8", "5", "4", "7", "7", "5", "8", "0", "7">>, <<"9", "2", "2", "3", "3", "7", "2", "0", "3", "6", "8", "5", "4", "7", "7", "5", "8", "0", "8">>, <<"1", "8", "4", "4", "6", "7", "4", "4", "0", "7", "3", "7", "0", "9", "5", "4", "7", "6", "1", "6">>,
    <<"1", "8", "4", "4", "6", "7", "4", "4", "0", "7", "3", "7", "0", "9", "5", "5", "1", "6", "1", "5">>, <<"1", "8", "4", "4", "6", "7", "4", "4", "0", "7", "3", "7", "0", "9", "5", "5", "1", "6", "1", "6">> }

SmallTokens == { <<>>, <<"1">>, <<"x">> }

\* bytes=<t1>-<t2> for every pair of tokens
PairSpecifiers == { BytesPrefix \o a \o <<"-">> \o b : a \in Tokens, b \in Tokens }

\* bytes=<t1>-...-<tk> with k # 2 tokens
OddSpecifiers ==
  UNION { { BytesPrefix \o Join(ts, "-") : ts \in [1..k -> SmallTokens] } :
          k \in (1..MaxTokens) \ {2} }

\* specifiers that do not start with bytes=
OtherPrefixes == { <<>>, <<"b", "i", "t", "s", "=">>, <<"B", "y", "t", "e", "s", "=">>, <<" ", "b", "y", "t", "e", "s", "=">>, <<"b", "y", "t", "e", "s">>, <<"b", "y", "t", "e", "s", " ", "=">> }

UnprefixedSpecifiers ==
  { p \o b : p \in OtherPrefixes, b \in { <<"0", "-", "1", "0", "0", "0">>, <<"-", "8", "0">>, <<"5", "-">> } }

\* full forms whose start is 2^64-1: the offset converts to -1
WrapSpecifiers ==
  { BytesPrefix \o <<"1", "8", "4", "4", "6", "7", "4", "4", "0", "7", "3", "7", "0", "9", "5", "5", "1", "6", "1", "5">> \o <<"-">> \o b :
      b \in { <<"1", "8", "4", "4", "6", "7", "4", "4", "0", "7", "3", "7", "0", "9", "5", "5", "1", "6", "1", "3">>, <<"1", "8", "4", "4", "6", "7", "4", "4", "0", "7", "3", "7", "0", "9", "5", "5", "1", "6", "1", "4">> } }

Specifiers ==
  PairSpecifiers \cup OddSpecifiers \cup UnprefixedSpecifiers \cup WrapSpecifiers

\* specifiers tried in several channels at once
MultiSpecifiers ==
  { <<>>, <<"b", "y", "t", "e", "s", "=", "0", "-", "1", "0", "0", "0">>, <<"b", "y", "t", "e", "s", "=", "-", "8", "0">>, <<"b", "y", "t", "e", "s", "=", "a", "b", "c", "-", "1", "2", "3">>, <<"b", "y", "t", "e", "s", "=", "5", "0", "0", "0", "-">>, <<"b", "o", "g", "u", "s">> }

HeaderKeys == {"Range", "X-Dolt-Range"}

QueryKeys == {"Range", "range"}

Request(method, hRange, hXRange, qRange, qrange) ==
  [method |-> method,
   header |-> [k \in HeaderKeys |-> IF k = "Range" THEN hRange ELSE hXRange],
   query |-> [k \in QueryKeys |-> IF k = "Range" THEN qRange ELSE qrange]]

Channels == {"Range", "X-Dolt-Range", "?Range", "?range"}

\* The GET request that carries s in one channel and nothing in the others.
Via(channel, s) ==
  Request("GET",
          IF channel = "Range" THEN s ELSE <<>>,
          IF channel = "X-Dolt-Range" THEN s ELSE <<>>,
          IF channel = "?Range" THEN s ELSE <<>>,
          IF channel = "?range" THEN s ELSE <<>>)

Methods == {"GET", "POST", "PUT"}

Requests ==
  { Via(c, s) : c \in Channels, s \in Specifiers }
    \cup { Request(m, a, b, c, d) : m \in Methods, a \in MultiSpecifiers,
           b \in MultiSpecifiers, c \in MultiSpecifiers, d \in MultiSpecifiers }

NoRequest == Request("", <<>>, <<>>, <<>>, <<>>)

NoResponse == [status |-> 0, header |-> <<>>, body |-> <<>>]

----------------------------------------------------------------------------
(* the two listeners                                                       *)

\* A request arrives on a listener.
Receive(l) ==
  /\ pc = "idle"
  /\ \E r \in Requests : req' = r
  /\ listener' = l
  /\ pc' = "serving"
  /\ UNCHANGED <<resp, trace, sample, results, processVars, clientVars, callVars>>

ReceiveHttp == Receive("http")

ReceiveHttps == Receive("https")

\* The writer the https handler passes on: it adds its header first.
SecureWriter ==
  HeaderAdd(NewWriter, "Strict-Transport-Security",
            <<"m", "a", "x", "-", "a", "g", "e", "=", "6", "3", "0", "7", "2", "0", "0", "0", ";", " ", "i", "n", "c", "l", "u", "d", "e", "S", "u", "b", "D", "o", "m", "a", "i", "n", "s">>)

\* The whole handler call serveContents(writer, request, newContents(), vbs).
Served(out) ==
  /\ resp' = Response(out.w)
  /\ trace' = out.calls
  /\ pc' = "done"
  /\ UNCHANGED <<listener, req, sample, results, processVars, clientVars, callVars>>

Serve(w) == Served(serveContents(w, req, newContents))

\* The handler getHttpServer installs.
HandleHttp == pc = "serving" /\ listener = "http" /\ Serve(NewWriter)

\* The handler getHttpsServer installs.
HandleHttps == pc = "serving" /\ listener = "https" /\ Serve(SecureWriter)

\* The response has gone out; nothing of the request is kept.
Finish ==
  /\ pc = "done"
  /\ pc' = "idle"
  /\ listener' = "none"
  /\ req' = NoRequest
  /\ resp' = NoResponse
  /\ trace' = <<>>
  /\ UNCHANGED <<sample, results, processVars, clientVars, callVars>>

Init ==
  /\ pc = "idle"
  /\ listener = "none"
  /\ req = NoRequest
  /\ resp = NoResponse
  /\ trace = <<>>
  /\ sample = <<>>
  /\ results = {}
  /\ Others

Next ==
  \/ ReceiveHttp
  \/ ReceiveHttps
  \/ HandleHttp
  \/ HandleHttps
  \/ Finish

Spec == Init /\ [][Next]_vars

----------------------------------------------------------------------------
(* one specifier sent through each channel in turn                         *)

Probed == { x.channel : x \in results }

Recorded(channel, out) ==
  /\ resp' = Response(out.w)
  /\ trace' = out.calls
  /\ results' = results \cup
        { [channel |-> channel, status |-> Response(out.w).status,
           body |-> Response(out.w).body] }

\* A GET that carries the sample in one channel only is sent and answered.
Probe(channel, r) ==
  /\ channel \notin Probed
  /\ req' = r
  /\ Recorded(channel, serveContents(NewWriter, r, newContents))
  /\ UNCHANGED <<pc, listener, sample, processVars, clientVars, callVars>>

\* The sample in the Range header.
ProbeRangeHeader == Probe("header", Via("Range", sample))

\* The sample in the X-Dolt-Range header.
ProbeXDoltRange == Probe("alternate header", Via("X-Dolt-Range", sample))

\* The sample in the query parameter, under either of its two names.
ProbeQueryParam == \E name \in {"?Range", "?range"} : Probe("query", Via(name, sample))

ChannelsInit ==
  /\ pc = "idle"
  /\ listener = "none"
  /\ req = NoRequest
  /\ resp = NoResponse
  /\ trace = <<>>
  /\ sample \in Specifiers
  /\ results = {}
  /\ Others

ChannelsNext ==
  \/ ProbeRangeHeader
  \/ ProbeXDoltRange
  \/ ProbeQueryParam

SpecChannels == ChannelsInit /\ [][ChannelsNext]_vars

----------------------------------------------------------------------------
(* the server process: main, its two serve goroutines, the shutdown        *)
(* goroutine (one interrupt; requests in flight are counted, not served)   *)

MaxActive == 2

\* No request is being handled in this part.
HandlerIdle ==
  /\ pc = "idle"
  /\ listener = "none"
  /\ req = NoRequest
  /\ resp = NoResponse
  /\ trace = <<>>
  /\ sample = <<>>
  /\ results = {}

HandlerVars == <<pc, listener, req, resp, trace, sample, results>>

Running == mainPc # "exited"

ServeOf(s, state) == [srv EXCEPT ![s].serve = state]

\* wg.Add(1); go func() { defer wg.Done(); srv.ListenAndServe... }()
MainSpawn(s, at, then) ==
  /\ mainPc = at
  /\ mainPc' = then
  /\ wg' = wg + 1
  /\ srv' = ServeOf(s, "spawned")
  /\ UNCHANGED <<shutdownPc, quit, ctx, HandlerVars, clientVars, callVars>>

MainSpawnHttp == MainSpawn("http", "addHttp", "addHttps")

MainSpawnHttps == MainSpawn("https", "addHttps", "wait")

\* wg.Wait() returns and main, with it the process, ends.
MainWait ==
  /\ mainPc = "wait"
  /\ wg = 0
  /\ mainPc' = "exited"
  /\ UNCHANGED <<shutdownPc, quit, ctx, wg, srv, HandlerVars, clientVars, callVars>>

\* The serve goroutine of s returns: its deferred wg.Done() runs.
ServeReturns(s, state) ==
  /\ srv' = ServeOf(s, state)
  /\ wg' = wg - 1
  /\ UNCHANGED <<mainPc, shutdownPc, quit, ctx, HandlerVars, clientVars, callVars>>

\* ListenAndServe / ListenAndServeTLS binds the port and starts accepting.
Listen(s) ==
  /\ Running
  /\ srv[s].serve = "spawned"
  /\ ~srv[s].inShutdown
  /\ srv' = ServeOf(s, "serving")
  /\ UNCHANGED <<mainPc, shutdownPc, quit, ctx, wg, HandlerVars, clientVars, callVars>>

\* ListenAndServe cannot bind the port (or read the certificate): an error.
ListenFails(s) ==
  /\ Running
  /\ srv[s].serve = "spawned"
  /\ ~srv[s].inShutdown
  /\ ServeReturns(s, "failed")

\* ListenAndServe returns ErrServerClosed as soon as Shutdown has been
\* called on its server, before or after it began to accept.
ServeClosed(s) ==
  /\ Running
  /\ srv[s].serve \in {"spawned", "serving"}
  /\ srv[s].inShutdown
  /\ ServeReturns(s, "closed")

\* A request arrives on an accepting server and its handler starts.
Accept(s) ==
  /\ Running
  /\ srv[s].serve = "serving"
  /\ ~srv[s].inShutdown
  /\ srv[s].active < MaxActive
  /\ srv' = [srv EXCEPT ![s].active = @ + 1]
  /\ UNCHANGED <<mainPc, shutdownPc, quit, ctx, wg, HandlerVars, clientVars, callVars>>

\* A handler returns and its connection goes idle.
HandlerReturns(s) ==
  /\ Running
  /\ srv[s].active > 0
  /\ srv' = [srv EXCEPT ![s].active = @ - 1]
  /\ UNCHANGED <<mainPc, shutdownPc, quit, ctx, wg, HandlerVars, clientVars, callVars>>

\* SIGINT or SIGTERM is delivered while quit is registered for it.
Interrupt ==
  /\ Running
  /\ shutdownPc = "quit"
  /\ quit = 0
  /\ quit' = 1
  /\ UNCHANGED <<mainPc, shutdownPc, ctx, wg, srv, HandlerVars, clientVars, callVars>>

\* <-quit; signal.Stop(quit); ctx := context.WithTimeout(..., 20s)
TakeQuit ==
  /\ Running
  /\ shutdownPc = "quit"
  /\ quit = 1
  /\ quit' = 0
  /\ ctx' = "live"
  /\ shutdownPc' = "callHttp"
  /\ UNCHANGED <<mainPc, wg, srv, HandlerVars, clientVars, callVars>>

\* The 20 seconds of the context run out.
Expire ==
  /\ Running
  /\ ctx = "live"
  /\ ctx' = "expired"
  /\ UNCHANGED <<mainPc, shutdownPc, quit, wg, srv, HandlerVars, clientVars, callVars>>

\* srv.Shutdown(ctx) is entered: the server is marked and its listener closed.
ShutdownBegins(s, at, then) ==
  /\ Running
  /\ shutdownPc = at
  /\ shutdownPc' = then
  /\ srv' = [srv EXCEPT ![s].inShutdown = TRUE]
  /\ UNCHANGED <<mainPc, quit, ctx, wg, HandlerVars, clientVars, callVars>>

\* srv.Shutdown(ctx) returns: no request of s is in flight any more, or the
\* context has expired.
ShutdownReturns(s, at, then) ==
  /\ Running
  /\ shutdownPc = at
  /\ srv[s].active = 0 \/ ctx = "expired"
  /\ shutdownPc' = then
  /\ UNCHANGED <<mainPc, quit, ctx, wg, srv, HandlerVars, clientVars, callVars>>

HttpShutdownBegins == ShutdownBegins("http", "callHttp", "inHttp")

HttpShutdownReturns == ShutdownReturns("http", "inHttp", "callHttps")

HttpsShutdownBegins == ShutdownBegins("https", "callHttps", "inHttps")

HttpsShutdownReturns == ShutdownReturns("https", "inHttps", "finished")

ProcessStart == HandlerIdle /\ ProcessInit /\ ClientIdle /\ CallsIdle

ProcessNext ==
  \/ MainSpawnHttp
  \/ MainSpawnHttps
  \/ MainWait
  \/ \E s \in Servers : Listen(s)
  \/ \E s \in Servers : ListenFails(s)
  \/ \E s \in Servers : ServeClosed(s)
  \/ \E s \in Servers : Accept(s)
  \/ \E s \in Servers : HandlerReturns(s)
  \/ Interrupt
  \/ TakeQuit
  \/ Expire
  \/ HttpShutdownBegins
  \/ HttpShutdownReturns
  \/ HttpsShutdownBegins
  \/ HttpsShutdownReturns

SpecProcess == ProcessStart /\ [][ProcessNext]_vars

----------------------------------------------------------------------------
(* the client's default battery, sendSamples                               *)

contentMax == 4000

sampleRangeStart == <<"b", "y", "t", "e", "s", "=", "0", "-", "1", "0", "0", "0">>

sampleRangeMid == <<"b", "y", "t", "e", "s", "=", "2", "5", "0", "0", "-", "2", "5", "9", "9">>

sampleRangeEnd == <<"b", "y", "t", "e", "s", "=", "-", "8", "0">>

sampleRanges ==
  (sampleRangeStart :> 1001) @@ (sampleRangeMid :> 100) @@ (sampleRangeEnd :> 80)

sampleParamsStart == <<"r", "a", "n", "g", "e", "=", "b", "y", "t", "e", "s", "%", "3", "D", "0", "%", "2", "D", "1", "0", "0", "0">>

sampleParamsMid == <<"r", "a", "n", "g", "e", "=", "b", "y", "t", "e", "s", "%", "3", "D", "2", "5", "0", "0", "%", "2", "D", "2", "5", "9", "9">>

sampleParamsEnd == <<"r", "a", "n", "g", "e", "=", "b", "y", "t", "e", "s", "%", "3", "D", "%", "2", "D", "8", "0">>

sampleParams ==
  (sampleParamsStart :> 1001) @@ (sampleParamsMid :> 100) @@ (sampleParamsEnd :> 80)

\* The printable ASCII characters, from code 32 on (the double quote, the
\* backslash and the backtick by name).
Ascii ==
  <<" ", "!", "dquote", "#", "$", "%", "&", "'", "(", ")", "*", "+",
    ",", "-", ".", "/", "0", "1", "2", "3", "4", "5", "6", "7",
    "8", "9", ":", ";", "<", "=", ">", "?", "@", "A", "B", "C",
    "D", "E", "F", "G", "H", "I", "J", "K", "L", "M", "N", "O",
    "P", "Q", "R", "S", "T", "U", "V", "W", "X", "Y", "Z", "[",
    "backslash", "]", "^", "_", "backtick", "a", "b", "c", "d", "e", "f", "g",
    "h", "i", "j", "k", "l", "m", "n", "o", "p", "q", "r", "s",
    "t", "u", "v", "w", "x", "y", "z", "{", "|", "}", "~">>

HexDigits ==
  <<"0", "1", "2", "3", "4", "5", "6", "7", "8", "9", "A", "B", "C", "D", "E", "F">>

LowerHex == <<"a", "b", "c", "d", "e", "f">>

IsHex(c) == (\E i \in 1..16 : HexDigits[i] = c) \/ (\E i \in 1..6 : LowerHex[i] = c)

HexVal(c) ==
  IF \E i \in 1..16 : HexDigits[i] = c
  THEN (CHOOSE i \in 1..16 : HexDigits[i] = c) - 1
  ELSE (CHOOSE i \in 1..6 : LowerHex[i] = c) + 9

Chr(n) == IF n >= 32 /\ n <= 126 THEN Ascii[n - 31] ELSE "?"

\* url.QueryUnescape: %XX is the byte XX, + is a space.
RECURSIVE QueryUnescape(_)
QueryUnescape(s) ==
  IF s = <<>> THEN <<>>
  ELSE IF s[1] = "%" /\ Len(s) >= 3 /\ IsHex(s[2]) /\ IsHex(s[3])
  THEN <<Chr(16 * HexVal(s[2]) + HexVal(s[3]))>> \o QueryUnescape(SubSeq(s, 4, Len(s)))
  ELSE IF s[1] = "+" THEN <<" ">> \o QueryUnescape(Tail(s))
  ELSE <<s[1]>> \o QueryUnescape(Tail(s))

\* The place of the first c in s, or 0.
IndexOf(s, c) ==
  IF \E i \in 1..Len(s) : s[i] = c
  THEN CHOOSE i \in 1..Len(s) : s[i] = c /\ \A j \in 1..(i - 1) : s[j] # c
  ELSE 0

\* req.URL.Query() on the server, for a query of one pair: name and value
\* are cut at the first "=" and unescaped.
QueryName(params) ==
  IF IndexOf(params, "=") = 0 THEN QueryUnescape(params)
  ELSE QueryUnescape(SubSeq(params, 1, IndexOf(params, "=") - 1))

QueryValue(params) ==
  IF IndexOf(params, "=") = 0 THEN <<>>
  ELSE QueryUnescape(SubSeq(params, IndexOf(params, "=") + 1, Len(params)))

\* The request the server sees when the query carries one pair.
WithQuery(name, value) ==
  Request("GET", <<>>, <<>>,
          IF name = <<"R", "a", "n", "g", "e">> THEN value ELSE <<>>,
          IF name = <<"r", "a", "n", "g", "e">> THEN value ELSE <<>>)

\* The request the server sees when req.Header.Add(key, value) was called:
\* the key is stored in its canonical form.
WithHeader(key, value) ==
  Request("GET",
          IF CanonicalHeaderKey(key) = "Range" THEN value ELSE <<>>,
          IF CanonicalHeaderKey(key) = "X-Dolt-Range" THEN value ELSE <<>>,
          <<>>, <<>>)

\* The header names sendWithHeader lets through.
HeaderNames ==
  (<<"R", "a", "n", "g", "e">> :> "Range") @@ (<<"r", "a", "n", "g", "e">> :> "range")
    @@ (<<"x", "-", "d", "o", "l", "t", "-", "r", "a", "n", "g", "e">> :> "x-dolt-range") @@ (<<"X", "-", "D", "o", "l", "t", "-", "R", "a", "n", "g", "e">> :> "X-Dolt-Range")

Hosts == { <<"1", "2", "7", ".", "0", ".", "0", ".", "1">>, <<"m", "y", " ", "s", "e", "r", "v", "e", "r">> }

\* url := fmt.Sprintf("http://%s:%d", *host, *port)
UrlOf(host) == <<"h", "t", "t", "p", ":", "/", "/">> \o host \o <<":", "1", "7", "0", "9">>

\* http.NewRequest fails when the URL does not parse: a space in the host.
NewRequestFails(rawurl) == \E i \in 1..Len(rawurl) : rawurl[i] = " "

Outcome(e, status, length) == [err |-> e, status |-> status, len |-> length]

\* What stands between client and server for one probe: nothing, a proxy
\* that drops the range signal, a proxy that answers by itself, a connection
\* that fails, a body that breaks off.
Networks == {"direct", "stripped", "gateway", "refused", "cut"}

BadGateway == [status |-> 502, header |-> <<>>, body |-> <<>>]

\* The response that comes back for request r.
Delivered(net, r) ==
  CASE net = "direct" -> Response(serveContents(NewWriter, r, newContents).w)
    [] net = "stripped" ->
         Response(serveContents(NewWriter, Request("GET", <<>>, <<>>, <<>>, <<>>),
                                newContents).w)
    [] OTHER -> BadGateway

Received(res) == Outcome("nil", res.status, Len(res.body))

\* send: client.Do, then io.ReadAll of the body.
send(net, r) ==
  IF net = "refused" THEN Outcome("transport", 0, 0)
  ELSE IF net = "cut" THEN Outcome("body", 0, 0)
  ELSE Received(Delivered(net, r))

sendRaw(net, rawurl) ==
  IF NewRequestFails(rawurl) THEN Outcome("request", 0, 0)
  ELSE send(net, Request("GET", <<>>, <<>>, <<>>, <<>>))

sendWithParams(net, rawurl, params) ==
  IF NewRequestFails(rawurl \o <<"/", "?">> \o params) THEN Outcome("request", 0, 0)
  ELSE send(net, WithQuery(QueryName(params), QueryValue(params)))

headerSent(net, key, value) ==
  IF key \notin DOMAIN HeaderNames THEN Outcome("unsupported header", 0, 0)
  ELSE send(net, WithHeader(HeaderNames[key], value))

headerParts(net, parts) ==
  IF Len(parts) # 2 THEN Outcome("failed to parse header", 0, 0)
  ELSE headerSent(net, TrimSpace(parts[1]), TrimSpace(parts[2]))

sendWithHeader(net, rawurl, header) ==
  IF NewRequestFails(rawurl) THEN Outcome("request", 0, 0)
  ELSE headerParts(net, Split(header, ":"))

\* Mutant of Aborts: a mismatch ends the battery as well.
AbortsOnMismatch(o, wantStatus, wantLen) ==
  o.err # "nil" \/ o.status # wantStatus \/ o.len # wantLen

\* sendSamples returns at once when a probe returns an error.
Aborts(o, wantStatus, wantLen) == o.err # "nil"

\* The diagnostics printed for one answer.
Diagnostics(o, wantStatus, wantLen) ==
  (IF o.status # wantStatus THEN 1 ELSE 0) + (IF o.len # wantLen THEN 1 ELSE 0)

NextLoop(loop) ==
  CASE loop = "Range" -> "x-dolt-range"
    [] loop = "x-dolt-range" -> "params"
    [] loop = "params" -> "raw"
    [] OTHER -> "returned"

Keys(loop) ==
  CASE loop \in {"Range", "x-dolt-range"} -> DOMAIN sampleRanges
    [] loop = "params" -> DOMAIN sampleParams
    [] loop = "raw" -> {<<>>}
    [] OTHER -> {}

\* The loop goes on to its next key, or sendSamples to its next loop.
Continue(loop, left) ==
  IF left = {}
  THEN clientPc' = NextLoop(loop) /\ remaining' = Keys(NextLoop(loop))
  ELSE clientPc' = loop /\ remaining' = left

\* One probe has returned o.
Checked(loop, k, o, wantStatus, wantLen) ==
  /\ issued' = Append(issued, [via |-> loop, sample |-> k, err |-> o.err])
  /\ IF Aborts(o, wantStatus, wantLen)
     THEN /\ samplesErr' = o.err
          /\ clientPc' = "returned"
          /\ remaining' = {}
          /\ UNCHANGED mismatches
     ELSE /\ mismatches' = mismatches + Diagnostics(o, wantStatus, wantLen)
          /\ Continue(loop, remaining \ {k})
          /\ UNCHANGED samplesErr
  /\ UNCHANGED <<url, HandlerVars, processVars, callVars>>

\* for headerBytes, expectedLen := range sampleRanges, with "Range: "
SendRange ==
  /\ clientPc = "Range"
  /\ \E k \in remaining, net \in Networks :
        Checked("Range", k, sendWithHeader(net, url, <<"R", "a", "n", "g", "e", ":", " ">> \o k),
                206, sampleRanges[k])

\* for headerBytes, expectedLen := range sampleRanges, with "x-dolt-range: "
SendXDoltRange ==
  /\ clientPc = "x-dolt-range"
  /\ \E k \in remaining, net \in Networks :
        Checked("x-dolt-range", k,
                sendWithHeader(net, url, <<"x", "-", "d", "o", "l", "t", "-", "r", "a", "n", "g", "e", ":", " ">> \o k),
                206, sampleRanges[k])

\* for params, expectedLen := range sampleParams
SendParams ==
  /\ clientPc = "params"
  /\ \E k \in remaining, net \in Networks :
        Checked("params", k, sendWithParams(net, url, k), 206, sampleParams[k])

\* request all contents
SendRaw ==
  /\ clientPc = "raw"
  /\ \E k \in remaining, net \in Networks :
        Checked("raw", k, sendRaw(net, url), 200, contentMax)

\* main calls sendSamples(client, url, *verbose).
BatteryInit ==
  /\ url \in { UrlOf(h) : h \in Hosts }
  /\ clientPc = "Range"
  /\ remaining = Keys("Range")
  /\ issued = <<>>
  /\ mismatches = 0
  /\ samplesErr = "nil"

BatteryStart == HandlerIdle /\ ProcessInit /\ BatteryInit /\ CallsIdle

BatteryNext ==
  \/ SendRange
  \/ SendXDoltRange
  \/ SendParams
  \/ SendRaw

SpecBattery == BatteryStart /\ [][BatteryNext]_vars

----------------------------------------------------------------------------
(* handler calls running side by side on the two listeners                 *)

\* Mutant of WriterOf: all calls write to one writer.
SharedWriter(h) == 1

\* The writer net/http hands to handler call h: one per request.
WriterOf(h) == h

\* The store handler call h reads: the one its own newContents() built.
StoreOf(h) == h

\* The requests sent while others are being served.
ConcurrentRequests ==
  { Via("Range", <<"b", "y", "t", "e", "s", "=", "0", "-", "9">>),
    Via("X-Dolt-Range", <<"b", "y", "t", "e", "s", "=", "a", "b", "c">>),
    Request("GET", <<>>, <<>>, <<>>, <<>>),
    Request("POST", <<"b", "y", "t", "e", "s", "=", "0", "-", "9">>, <<>>, <<>>, <<>>) }

\* The writer the handler of listener l passes to serveContents.
WriterFor(l) == IF l = "https" THEN SecureWriter ELSE NewWriter

\* The range string serveContents settles on: header, then alternate header,
\* then query parameter; empty when none is given.
rangeStrOf(r) ==
  IF rangeHeaderOf(r).val # <<>> THEN rangeHeaderOf(r).val
  ELSE IF xRangeHeaderOf(r).val # <<>> THEN xRangeHeaderOf(r).val
  ELSE rangeParamOf(r).val

At(h, state) == handlers[h].pc = state

Wrote(h, w) == [writers EXCEPT ![WriterOf(h)] = w]

\* The call writes w and returns: what its writer then holds goes to the
\* client.
Returns(h, w) ==
  /\ writers' = Wrote(h, w)
  /\ handlers' = [handlers EXCEPT ![h].resp = Response(Wrote(h, w)[WriterOf(h)]),
                                  ![h].pc = "done"]

\* A request arrives on listener l; net/http calls the handler with a writer
\* of its own, and the handler builds its store: newContents().
Arrive(h, l) ==
  /\ At(h, "idle")
  /\ \E r \in ConcurrentRequests :
        handlers' = [handlers EXCEPT ![h] =
                       [pc |-> "called", listener |-> l, req |-> r,
                        rangeStr |-> <<>>, parsed |-> NoParse, resp |-> NoResponse]]
  /\ stores' = [stores EXCEPT ![StoreOf(h)] = newContents]
  /\ writers' = Wrote(h, WriterFor(l))
  /\ UNCHANGED <<HandlerVars, processVars, clientVars>>

\* serveContents up to its choice between writeContentRange and all content.
Dispatched(h, w, r) ==
  IF MethodRefused(r.method)
  THEN Returns(h, Write(WriteHeader(w, 400), OnlyGetMsg))
  ELSE /\ writers' = Wrote(h, HeaderAdd(w, "Accept-Ranges", <<"b", "y", "t", "e", "s">>))
       /\ handlers' = [handlers EXCEPT
                         ![h].rangeStr = rangeStrOf(r),
                         ![h].pc = IF rangeStrOf(r) # <<>> THEN "range" ELSE "all"]

Dispatch(h) ==
  /\ At(h, "called")
  /\ Dispatched(h, writers[WriterOf(h)], handlers[h].req)
  /\ UNCHANGED <<stores, HandlerVars, processVars, clientVars>>

\* writeContentRange: offsetAndLenFromRange has returned p.
ParsedAs(h, w, p) ==
  IF p.err # "nil"
  THEN Returns(h, WriteHeader(w, 400))
  ELSE /\ writers' = writers
       /\ handlers' = [handlers EXCEPT ![h].parsed = p, ![h].pc = "parsed"]

Parse(h) ==
  /\ At(h, "range")
  /\ ParsedAs(h, writers[WriterOf(h)],
              offsetAndLenFromRange(handlers[h].rangeStr,
                                    ContentsLen(stores[StoreOf(h)])))
  /\ UNCHANGED <<stores, HandlerVars, processVars, clientVars>>

\* writeContentRange from contents.ReadRange on: error, or headers, 206, body.
ReadAndWrite(h, w, contents, p) ==
  Returns(h, rangeRead(w, contents, p,
                       ReadRange(contents, p.offset, Add64(p.offset, p.length)),
                       <<>>).w)

WriteRange(h) ==
  /\ At(h, "parsed")
  /\ ReadAndWrite(h, writers[WriterOf(h)], stores[StoreOf(h)], handlers[h].parsed)
  /\ UNCHANGED <<stores, HandlerVars, processVars, clientVars>>

\* serveContents without a range: all of the store goes out.
WriteAll(h) ==
  /\ At(h, "all")
  /\ Returns(h, serveAll(writers[WriterOf(h)], stores[StoreOf(h)]).w)
  /\ UNCHANGED <<stores, HandlerVars, processVars, clientVars>>

\* The client has its answer; the call's frame, store and writer are gone.
Forget(h) ==
  /\ At(h, "done")
  /\ handlers' = [handlers EXCEPT ![h] = IdleCall]
  /\ stores' = [stores EXCEPT ![StoreOf(h)] = NoStore]
  /\ writers' = Wrote(h, NoWriter)
  /\ UNCHANGED <<HandlerVars, processVars, clientVars>>

ConcurrentStart == HandlerIdle /\ ProcessInit /\ ClientIdle /\ CallsIdle

ConcurrentNext ==
  \/ \E h \in Calls : Arrive(h, "http")
  \/ \E h \in Calls : Arrive(h, "https")
  \/ \E h \in Calls : Dispatch(h)
  \/ \E h \in Calls : Parse(h)
  \/ \E h \in Calls : WriteRange(h)
  \/ \E h \in Calls : WriteAll(h)
  \/ \E h \in Calls : Forget(h)

SpecConcurrent == ConcurrentStart /\ [][ConcurrentNext]_vars

----------------------------------------------------------------------------
(* reading requests and responses as the specification words them          *)

DigitChars == {"0", "1", "2", "3", "4", "5", "6", "7", "8", "9"}

DigitOf(c) ==
  CASE c = "0" -> 0 [] c = "1" -> 1 [] c = "2" -> 2 [] c = "3" -> 3 [] c = "4" -> 4
    [] c = "5" -> 5 [] c = "6" -> 6 [] c = "7" -> 7 [] c = "8" -> 8 [] c = "9" -> 9

\* A numeral: one or more decimal digits, nothing else.
IsNumeral(tok) == tok # <<>> /\ \A i \in 1..Len(tok) : tok[i] \in DigitChars

\* A numeral short enough for its value to be computed directly.
IsShort(tok) == IsNumeral(tok) /\ Len(tok) <= 9

RECURSIVE NatOf(_)
NatOf(tok) ==
  IF tok = <<>> THEN 0
  ELSE NatOf(SubSeq(tok, 1, Len(tok) - 1)) * 10 + DigitOf(tok[Len(tok)])

RECURSIVE Dec(_)
Dec(n) ==
  IF n < 10 THEN <<Digits[n + 1]>> ELSE Append(Dec(n \div 10), Digits[(n % 10) + 1])

RECURSIVE StripZeros(_)
StripZeros(tok) ==
  IF Len(tok) > 1 /\ Head(tok) = "0" THEN StripZeros(Tail(tok)) ELSE tok

\* a < b for numerals without leading zeros, of any length
StrippedLess(a, b) ==
  \/ Len(a) < Len(b)
  \/ /\ Len(a) = Len(b)
     /\ \E i \in 1..Len(a) :
           /\ DigitOf(a[i]) < DigitOf(b[i])
           /\ \A j \in 1..(i - 1) : a[j] = b[j]

\* a < b for numerals of any length
NumLess(a, b) == StrippedLess(StripZeros(a), StripZeros(b))

MaxUint64Numeral == <<"1", "8", "4", "4", "6", "7", "4", "4", "0", "7", "3", "7", "0", "9", "5", "5", "1", "6", "1", "5">>

\* A numeral the parser accepts: its value is at most 2^64-1.
IsAccepted(tok) == IsNumeral(tok) /\ ~NumLess(MaxUint64Numeral, tok)

StoreLen == Len(text)

StoreLenNumeral == Dec(StoreLen)

\* The specifier that decides the response: the first non-empty one.
Effective(r) ==
  IF r.header["Range"] # <<>> THEN r.header["Range"]
  ELSE IF r.header["X-Dolt-Range"] # <<>> THEN r.header["X-Dolt-Range"]
  ELSE IF r.query["Range"] # <<>> THEN r.query["Range"]
  ELSE r.query["range"]

Answered == pc = "done"

AnsweredGet == pc = "done" /\ req.method = "GET"

StartsWithBytes(s) == Len(s) >= 6 /\ SubSeq(s, 1, 6) = <<"b", "y", "t", "e", "s", "=">>

AfterBytes(s) == SubSeq(s, 7, Len(s))

DashesOf(t) == { i \in 1..Len(t) : t[i] = "-" }

\* bytes=<left>-<right> with exactly one '-'
HasTwoTokens(s) == StartsWithBytes(s) /\ Cardinality(DashesOf(AfterBytes(s))) = 1

DashOf(s) == CHOOSE i \in DashesOf(AfterBytes(s)) : TRUE

LeftOf(s) == SubSeq(AfterBytes(s), 1, DashOf(s) - 1)

RightOf(s) == SubSeq(AfterBytes(s), DashOf(s) + 1, Len(AfterBytes(s)))

IsFullForm(s) == HasTwoTokens(s) /\ IsNumeral(LeftOf(s)) /\ IsNumeral(RightOf(s))

IsSuffixForm(s) == HasTwoTokens(s) /\ LeftOf(s) = <<>> /\ IsNumeral(RightOf(s))

IsOpenForm(s) == HasTwoTokens(s) /\ RightOf(s) = <<>> /\ IsNumeral(LeftOf(s))

HeaderIs(h, key, value) == key \in DOMAIN h /\ h[key] = <<value>>

HasHeader(h, key) == key \in DOMAIN h

Called(op) == \E i \in 1..Len(trace) : trace[i].op = op

----------------------------------------------------------------------------
(* C1                                                                      *)

\* The specifier asks for at least one byte, all of it inside the store.
AsksInside(s) ==
  \/ /\ IsFullForm(s) /\ IsShort(LeftOf(s)) /\ IsShort(RightOf(s))
     /\ NatOf(LeftOf(s)) <= NatOf(RightOf(s)) /\ NatOf(RightOf(s)) < StoreLen
  \/ /\ IsSuffixForm(s) /\ IsShort(RightOf(s))
     /\ 1 <= NatOf(RightOf(s)) /\ NatOf(RightOf(s)) <= StoreLen
  \/ /\ IsOpenForm(s) /\ IsShort(LeftOf(s)) /\ NatOf(LeftOf(s)) < StoreLen

WantedOffset(s) ==
  IF IsSuffixForm(s) THEN StoreLen - NatOf(RightOf(s)) ELSE NatOf(LeftOf(s))

WantedLength(s) ==
  IF IsSuffixForm(s) THEN NatOf(RightOf(s))
  ELSE IF IsOpenForm(s) THEN StoreLen - NatOf(LeftOf(s))
  ELSE NatOf(RightOf(s)) - NatOf(LeftOf(s)) + 1

IsPartial(r, offset, length) ==
  /\ r.status = 206
  /\ HeaderIs(r.header, "Content-Range",
              <<"b", "y", "t", "e", "s", " ">> \o Dec(offset) \o <<"-">> \o Dec(offset + length - 1)
                 \o <<"/">> \o Dec(StoreLen))
  /\ r.body = SubSeq(text, offset + 1, offset + length)

\* C1: a GET whose effective specifier is bytes=A-B (0 <= A <= B < Len),
\* bytes=-N (1 <= N <= Len) or bytes=N- (0 <= N < Len) is answered 206 with
\* Content-Range "bytes offset-(offset+length-1)/Len" and exactly the store's
\* bytes [offset, offset+length) as body.
C1_RangeServed ==
  (AnsweredGet /\ AsksInside(Effective(req)))
     => IsPartial(resp, WantedOffset(Effective(req)), WantedLength(Effective(req)))

\* The last 80 bytes asked through the query parameter and served.
C1_Witness ==
  /\ AnsweredGet
  /\ req = Via("?range", <<"b", "y", "t", "e", "s", "=", "-", "8", "0">>)
  /\ resp.status = 206
  /\ HeaderIs(resp.header, "Content-Range", <<"b", "y", "t", "e", "s", " ", "3", "9", "2", "0", "-", "3", "9", "9", "9", "/", "4", "0", "0", "0">>)
  /\ Len(resp.body) = 80

----------------------------------------------------------------------------
(* C2                                                                      *)

NoSignal(r) ==
  /\ r.header["Range"] = <<>> /\ r.header["X-Dolt-Range"] = <<>>
  /\ r.query["Range"] = <<>> /\ r.query["range"] = <<>>

\* C2: a GET with no range signal in any channel is answered 200 with the
\* whole store as body, Content-Length 4000 and no Content-Range header.
C2_AllServed ==
  (AnsweredGet /\ NoSignal(req))
     => /\ resp.status = 200
        /\ resp.body = text
        /\ HeaderIs(resp.header, "Content-Length", <<"4", "0", "0", "0">>)
        /\ Len(resp.body) = 4000
        /\ ~HasHeader(resp.header, "Content-Range")

\* A GET without any range signal answered on the TLS listener.
C2_Witness ==
  /\ AnsweredGet /\ NoSignal(req) /\ listener = "https"
  /\ resp.status = 200 /\ Len(resp.body) = 4000

----------------------------------------------------------------------------
(* C3                                                                      *)

\* C3: a request whose method is not GET is answered 400 whatever range
\* signal it carries, and neither the range parser nor ReadRange is called.
C3_OnlyGet ==
  (Answered /\ req.method # "GET")
     => /\ resp.status = 400
        /\ ~Called("offsetAndLenFromRange")
        /\ ~Called("ReadRange")

\* A POST that carries a valid range in the Range header, turned away.
C3_Witness ==
  /\ Answered /\ req.method = "POST"
  /\ req.header["Range"] = <<"b", "y", "t", "e", "s", "=", "0", "-", "1", "0", "0", "0">>
  /\ resp.status = 400

----------------------------------------------------------------------------
(* C4                                                                      *)

----------------------------------------------------------------------------
(* C5                                                                      *)

\* The channels after the first: the X-Dolt-Range header, the query parameter.
ConsultedXRange ==
  \E i \in 1..Len(trace) :
     trace[i].op = "Header.Get" /\ trace[i].args \in {<<"X-Dolt-Range">>, <<"x-dolt-range">>}

ConsultedQuery == Called("Query.Get")

ParsedStrings ==
  { trace[i].args[1] : i \in { j \in 1..Len(trace) : trace[j].op = "offsetAndLenFromRange" } }

\* The answer to the request that carries s alone, in the Range header.
AloneAnswer(s) == Response(serveContents(NewWriter, Via("Range", s), newContents).w)

SameAnswer(a, b) ==
  /\ a.status = b.status
  /\ a.body = b.body
  /\ HasHeader(a.header, "Content-Range") = HasHeader(b.header, "Content-Range")
  /\ HasHeader(a.header, "Content-Range")
        => a.header["Content-Range"] = b.header["Content-Range"]

\* C5: with specifiers in several channels the first non-empty one in the
\* order Range, X-Dolt-Range, query parameter decides the response alone;
\* the channels after it are not consulted, and a winner that is malformed
\* or out of range is answered 400 without falling back.
C5_FirstChannelWins ==
  (AnsweredGet /\ ~NoSignal(req))
     => /\ SameAnswer(resp, AloneAnswer(Effective(req)))
        /\ ParsedStrings = {Effective(req)}
        /\ req.header["Range"] # <<>> => ~ConsultedXRange /\ ~ConsultedQuery
        /\ (req.header["Range"] = <<>> /\ req.header["X-Dolt-Range"] # <<>>)
              => ~ConsultedQuery

\* A malformed Range header wins over a valid X-Dolt-Range header: 400.
C5_Witness ==
  /\ AnsweredGet
  /\ req.header["Range"] = <<"b", "y", "t", "e", "s", "=", "a", "b", "c", "-", "1", "2", "3">>
  /\ req.header["X-Dolt-Range"] = <<"b", "y", "t", "e", "s", "=", "0", "-", "1", "0", "0", "0">>
  /\ req.query["range"] = <<"b", "y", "t", "e", "s", "=", "-", "8", "0">>
  /\ resp.status = 400

----------------------------------------------------------------------------
(* C6                                                                      *)

\* C6: every response carries Accept-Ranges: bytes, whatever the method and
\* the range signal, the 400 for a method other than GET included.
C6_AcceptRangesAlways ==
  Answered => HeaderIs(resp.header, "Accept-Ranges", <<"b", "y", "t", "e", "s">>)

----------------------------------------------------------------------------
(* C7                                                                      *)

IntOf(tok) == IF Head(tok) = "-" THEN 0 - NatOf(Tail(tok)) ELSE NatOf(tok)

FirstOf(s, c) == CHOOSE i \in 1..Len(s) : s[i] = c /\ \A j \in 1..(i - 1) : s[j] # c

\* The three numbers of "bytes <start>-<end>/<total>"; start is not negative.
RangeStart(v) == IntOf(SubSeq(v, 7, FirstOf(v, "-") - 1))

RangeEnd(v) == IntOf(SubSeq(v, FirstOf(v, "-") + 1, FirstOf(v, "/") - 1))

RangeTotal(v) == IntOf(SubSeq(v, FirstOf(v, "/") + 1, Len(v)))

\* The length of the slice the one ReadRange call of the handler returned.
SliceLengths ==
  { ToNat(trace[i].args[2]) - ToNat(trace[i].args[1]) :
      i \in { j \in 1..Len(trace) : trace[j].op = "ReadRange" } }

\* C7: in every 206 response the declared Content-Length is the number of
\* bytes of the slice ReadRange returned (the body), and is end-start+1 of
\* the declared Content-Range "bytes start-end/Len".
C7_LengthsAgree ==
  (Answered /\ resp.status = 206)
     => /\ HeaderIs(resp.header, "Content-Length", Dec(Len(resp.body)))
        /\ SliceLengths = {Len(resp.body)}
        /\ HasHeader(resp.header, "Content-Range")
        /\ Len(resp.header["Content-Range"]) = 1
        /\ RangeEnd(resp.header["Content-Range"][1])
              - RangeStart(resp.header["Content-Range"][1]) + 1 = Len(resp.body)
        /\ RangeTotal(resp.header["Content-Range"][1]) = StoreLen

\* A 206 whose specifier holds the token 2^64-1.
C7_Witness ==
  /\ Answered /\ resp.status = 206
  /\ RightOf(Effective(req)) = MaxUint64Numeral
  /\ HeaderIs(resp.header, "Content-Length", <<"0">>)

----------------------------------------------------------------------------
(* C8                                                                      *)

\* bytes=A-B with B < A, both numbers the parser accepts
IsInverted(s) ==
  /\ IsFullForm(s) /\ IsAccepted(LeftOf(s)) /\ IsAccepted(RightOf(s))
  /\ NumLess(RightOf(s), LeftOf(s))

\* ReadRange was called with end < start: the length was negative.
ReadNegativeLength ==
  \E i \in 1..Len(trace) :
     trace[i].op = "ReadRange" /\ SLess64(trace[i].args[2], trace[i].args[1])

\* C8: for every bytes=A-B with B < A the parser yields a negative length,
\* the store's bounds check rejects the window and the response is 400.
C8_InvertedRefused ==
  (AnsweredGet /\ IsInverted(Effective(req)))
     => resp.status = 400 /\ ReadNegativeLength

----------------------------------------------------------------------------
(* C9                                                                      *)

\* A token that is no decimal number, the white space around it aside.
NotNumber(tok) == ~IsNumeral(TrimSpace(tok))

\* Not of the form bytes=<number>-<number>, bytes=-<number>, bytes=<number>-
IsMalformed(s) ==
  /\ s # <<>>
  /\ \/ ~StartsWithBytes(s)
     \/ ~HasTwoTokens(s)
     \/ /\ HasTwoTokens(s)
        /\ \/ LeftOf(s) = <<>> /\ NotNumber(RightOf(s))
           \/ RightOf(s) = <<>> /\ NotNumber(LeftOf(s))
           \/ LeftOf(s) # <<>> /\ RightOf(s) # <<>>
                /\ (NotNumber(LeftOf(s)) \/ NotNumber(RightOf(s)))

----------------------------------------------------------------------------
(* C10                                                                     *)

\* A well-formed specifier that asks for bytes outside the store.
AsksOutside(s) ==
  \/ IsSuffixForm(s) /\ IsAccepted(RightOf(s)) /\ NumLess(StoreLenNumeral, RightOf(s))
  \/ IsOpenForm(s) /\ IsAccepted(LeftOf(s)) /\ NumLess(StoreLenNumeral, LeftOf(s))
  \/ /\ IsFullForm(s) /\ IsAccepted(LeftOf(s)) /\ IsAccepted(RightOf(s))
     /\ ~NumLess(RightOf(s), StoreLenNumeral)

\* C10: bytes=-N with N > Len, bytes=N- with N > Len and bytes=A-B with
\* B >= Len are answered 400, for every token value up to 2^64-1.
C10_OutsideRefused ==
  (AnsweredGet /\ AsksOutside(Effective(req))) => resp.status = 400

----------------------------------------------------------------------------
(* C14                                                                     *)

MinusOne64 == Neg64(One64)

\* The strings the range parser was called with, in this handler run.
ParserGivenEmpty ==
  \E i \in 1..Len(trace) :
     trace[i].op = "offsetAndLenFromRange" /\ trace[i].args[1] = <<>>

\* ReadRange(offset, offset+length) was called with offset = -1, length = -1.
ReadMinusOnePair ==
  \E i \in 1..Len(trace) :
     /\ trace[i].op = "ReadRange"
     /\ trace[i].args[1] = MinusOne64
     /\ Sub64(trace[i].args[2], trace[i].args[1]) = MinusOne64

\* Every ReadRange call comes right after a parser call on a non-empty string.
ReadFollowsParse ==
  \A i \in 1..Len(trace) :
     trace[i].op = "ReadRange"
        => /\ i > 1
           /\ trace[i - 1].op = "offsetAndLenFromRange"
           /\ trace[i - 1].args[1] # <<>>

\* C14 as stated: ReadRange is called only with a pair computed from a
\* non-empty specifier, and never with the pair (-1, -1).
C14_NeverMinusOnePair ==
  Answered => (ReadFollowsParse /\ ~ParserGivenEmpty /\ ~ReadMinusOnePair)

\* C14 as amended: the parser is never given the empty string and ReadRange
\* is called only with a pair computed from a non-empty specifier; that pair
\* can be (-1, -1) all the same.
C14_SentinelNeverRead ==
  Answered => (ReadFollowsParse /\ ~ParserGivenEmpty)

\* A non-empty specifier whose pair is (-1, -1), handed to ReadRange: 400.
C14_Witness ==
  /\ AnsweredGet
  /\ Effective(req) = <<"b", "y", "t", "e", "s", "=", "1", "8", "4", "4", "6", "7", "4", "4", "0", "7", "3", "7", "0", "9", "5", "5", "1", "6", "1", "5", "-", "1", "8", "4", "4", "6", "7", "4", "4", "0", "7", "3", "7", "0", "9", "5", "5", "1", "6", "1", "3">>
  /\ ReadMinusOnePair
  /\ resp.status = 400

----------------------------------------------------------------------------
(* C11                                                                     *)

Interrupted == quit = 1 \/ shutdownPc # "quit"

BothShutdownsReturned == shutdownPc = "finished"

\* C11: after an interrupt the process does not exit until the Shutdown of
\* the plain and of the TLS server have both returned.
C11_ExitAfterShutdowns ==
  (mainPc = "exited" /\ Interrupted) => BothShutdownsReturned

\* Both servers were accepting, and the process is gone while
\* httpsSrv.Shutdown still waits for a request in flight.
ExitWhileDraining ==
  /\ mainPc = "exited"
  /\ shutdownPc = "inHttps"
  /\ srv["http"].serve = "closed"
  /\ srv["https"].serve = "closed"
  /\ srv["https"].active > 0
  /\ ctx = "live"

----------------------------------------------------------------------------
(* C12                                                                     *)

FullBattery ==
  <<"Range", "Range", "Range", "x-dolt-range", "x-dolt-range", "x-dolt-range",
    "params", "params", "params", "raw">>

ViaOf(probes) == [i \in 1..Len(probes) |-> probes[i].via]

Returned == clientPc = "returned"

LastErr == IF issued = <<>> THEN "nil" ELSE issued[Len(issued)].err

\* The probes come in the order of the battery, each sample once in its
\* loop, and none after a probe that returned an error.
InBatteryOrder ==
  /\ Len(issued) <= Len(FullBattery)
  /\ ViaOf(issued) = SubSeq(FullBattery, 1, Len(issued))
  /\ \A i, j \in 1..Len(issued) :
        (i # j /\ issued[i].via = issued[j].via) => issued[i].sample # issued[j].sample
  /\ \A i \in 1..(Len(issued) - 1) : issued[i].err = "nil"

\* sendSamples has returned exactly when all ten probes are made or the
\* last one returned an error, and it returns that error.
StopsOnError ==
  /\ Returned <=> (Len(issued) = Len(FullBattery) \/ LastErr # "nil")
  /\ Returned => samplesErr = LastErr

TransportErrors == {"transport", "body"}

\* C12 as stated: the battery stops early if and only if a probe returns a
\* transport-level error; otherwise all ten probes are made, in order,
\* whatever mismatches are seen; nothing is sent after the error, which is
\* returned.
C12_StopsOnlyOnTransportError ==
  /\ InBatteryOrder
  /\ StopsOnError
  /\ LastErr \in TransportErrors \cup {"nil"}

\* C12 as amended: the battery stops early if and only if a probe returns an
\* error, be it from building the request, from the transport or from
\* reading the body.
C12_StopsOnlyOnError == InBatteryOrder /\ StopsOnError

\* All ten probes were made and every one of them mismatched in status and
\* in length; nil is returned.
C12_Witness ==
  /\ Returned
  /\ samplesErr = "nil"
  /\ ViaOf(issued) = FullBattery
  /\ mismatches = 2 * Len(FullBattery)

\* The battery went through without a single mismatch.
CleanRun ==
  /\ Returned
  /\ ViaOf(issued) = FullBattery
  /\ mismatches = 0

----------------------------------------------------------------------------
(* C13                                                                     *)

\* What the request gets when it is the only one ever served.
ServedAlone(l, r) == Response(serveContents(WriterFor(l), r, newContents).w)

Answers == { h \in Calls : handlers[h].pc = "done" }

\* C13: whatever else is being served or was served before, a request gets
\* the answer it would get alone; a store in use is as newContents built
\* it; equal requests get equal status and body.
C13_ServedAsIfAlone ==
  /\ \A h \in Answers :
        handlers[h].resp = ServedAlone(handlers[h].listener, handlers[h].req)
  /\ \A h \in Calls : handlers[h].pc # "idle" => stores[StoreOf(h)] = newContents
  /\ \A g, h \in Answers :
        handlers[g].req = handlers[h].req
           => /\ handlers[g].resp.status = handlers[h].resp.status
              /\ handlers[g].resp.body = handlers[h].resp.body

\* Two calls, one on each listener, ran side by side and have both answered
\* a range request with 206.
C13_Witness ==
  \E g, h \in Answers :
     /\ handlers[g].listener = "http"
     /\ handlers[h].listener = "https"
     /\ handlers[g].req = Via("Range", <<"b", "y", "t", "e", "s", "=", "0", "-", "9">>)
     /\ handlers[h].req = handlers[g].req
     /\ handlers[g].resp.status = 206
     /\ handlers[h].resp.status = 206

====
